---- MODULE Spec2Model ----
(***************************************************************************)
(* Quality scoring, enrichment and duplicate detection of the OMI -> Notion *)
(* semantic layer (src/src/quality_filter.py, src/src/enrichment.py,        *)
(* src/src/utils/deduplication.py, src/src/models/insight.py).              *)
(*                                                                         *)
(* Python floats are modelled as exact rationals [n |-> .., d |-> ..] in    *)
(* lowest terms, so that thresholds are compared exactly.  A text is a      *)
(* sequence of tokens: word tokens, whitespace tokens and punctuation       *)
(* tokens; the Python string is their concatenation.                        *)
(***************************************************************************)
EXTENDS Integers, Sequences, FiniteSets, TLC

None == "None"

\* ------------------------------------------------------------------------
\* Bounds of the model
\* ------------------------------------------------------------------------
MaxActionItems == 3
MaxSubScoreSteps == 3
MaxPhrases == 1
MaxEntities == 4
MaxClassifications == 2
MaxClock == 2
MaxInsights == 3

\* ------------------------------------------------------------------------
\* Exact rational arithmetic standing for Python float arithmetic
\* ------------------------------------------------------------------------
Abs(x) == IF x < 0 THEN -x ELSE x

RECURSIVE GCD(_, _)
GCD(a, b) == IF b = 0 THEN a ELSE GCD(b, a % b)

Rat(n, d) ==
    LET g == GCD(Abs(n), d)
    IN  [n |-> n \div g, d |-> d \div g]

R(k) == [n |-> k, d |-> 1]

RAdd(a, b) ==
    LET l == (a.d \div GCD(a.d, b.d)) * b.d
    IN  Rat(a.n * (l \div a.d) + b.n * (l \div b.d), l)

RNeg(a) == [n |-> -a.n, d |-> a.d]
RSub(a, b) == RAdd(a, RNeg(b))

RMul(a, b) ==
    LET g1 == GCD(Abs(a.n), b.d)
        g2 == GCD(Abs(b.n), a.d)
    IN  IF a.n = 0 \/ b.n = 0 THEN R(0)
        ELSE [n |-> (a.n \div g1) * (b.n \div g2),
              d |-> (a.d \div g2) * (b.d \div g1)]

RLe(a, b) == a.n * b.d <= b.n * a.d
RLt(a, b) == a.n * b.d < b.n * a.d
RGe(a, b) == RLe(b, a)
RGt(a, b) == RLt(b, a)
RMin(a, b) == IF RLe(a, b) THEN a ELSE b
RMax(a, b) == IF RLe(a, b) THEN b ELSE a

RECURSIVE RSum(_)
RSum(s) == IF s = <<>> THEN R(0) ELSE RAdd(Head(s), RSum(Tail(s)))

\* ------------------------------------------------------------------------
\* Texts: token sequences
\* ------------------------------------------------------------------------
Spaces == {" ", "  "}
Puncts == {".", ",", "...", "-", "?", "!"}

IsSpace(t) == t \in Spaces
IsPunct(t) == t \in Puncts
IsWord(t) == ~IsSpace(t) /\ ~IsPunct(t)

\* str.lower() on the strings of the vocabulary that hold an upper-case
\* letter; every other string of the vocabulary is already lower-case
LowerPairs ==
    { <<"Um", "um">>, <<"We", "we">>, <<"Friday", "friday">>,
      <<"Test", "test">>, <<"Message", "message">>, <<"John", "john">>,
      <<"Hi", "hi">>, <<"Acme", "acme">>, <<"Need", "need">>,
      <<"PROJ", "proj">>, <<"Urgent", "urgent">>, <<"Apollo", "apollo">>,
      <<"Must", "must">>, <<"Globex", "globex">>, <<"Zeus", "zeus">>,
      <<"Ann", "ann">>, <<"Q3 review", "q3 review">>,
      <<"next Friday", "next friday">>, <<"Title", "title">>,
      <<"The", "the">> }

LowerTable ==
    [t \in {p[1] : p \in LowerPairs} |->
        (CHOOSE p \in LowerPairs : p[1] = t)[2]]

Lower(t) == IF t \in DOMAIN LowerTable THEN LowerTable[t] ELSE t

Range(s) == {s[i] : i \in DOMAIN s}

Occurrences(s, x) == Cardinality({ i \in DOMAIN s : s[i] = x })

\* len(text): the lengths of the tokens lo..hi added up
RECURSIVE StrLenRange(_, _, _)
StrLenRange(text, lo, hi) ==
    IF lo > hi THEN 0
    ELSE IF lo = hi THEN Len(text[lo])
    ELSE LET mid == (lo + hi) \div 2
         IN  StrLenRange(text, lo, mid) + StrLenRange(text, mid + 1, hi)

StrLen(text) == StrLenRange(text, 1, Len(text))

\* len(text.split()): the number of maximal runs of non-whitespace tokens
WordCount(text) ==
    Cardinality({ i \in DOMAIN text :
                    ~IsSpace(text[i]) /\ (i = 1 \/ IsSpace(text[i - 1])) })

\* len(text.split(".")): one more than the number of "." characters
DotCount(text) ==
    Cardinality({ i \in DOMAIN text : text[i] = "." })
    + 3 * Cardinality({ i \in DOMAIN text : text[i] = "..." })

SentenceCount(text) == DotCount(text) + 1

\* ------------------------------------------------------------------------
\* Regular expressions of the quality filter, on token sequences.
\* A pattern is a sequence of sets of lower-case words (re.IGNORECASE) and
\* the kind of separator its words are joined by:
\*   "lit" a literal single space, "ws" \s+, "opt" [\s-], "dash" [-_]
\* ------------------------------------------------------------------------
Pat(words, sep) == [w |-> words, sep |-> sep]

SepOk(t, kind) ==
    CASE kind = "lit" -> t = " "
      [] kind = "ws" -> IsSpace(t)
      [] kind = "opt" -> t \in {" ", "-"}
      [] kind = "dash" -> t = "-"

\* the pattern matches at token i, between two word boundaries (\b)
PatternAt(text, i, p) ==
    LET k == Len(p.w)
        last == i + 2 * (k - 1)
    IN  /\ last <= Len(text)
        /\ \A j \in 1..k :
              /\ IsWord(text[i + 2 * (j - 1)])
              /\ Lower(text[i + 2 * (j - 1)]) \in p.w[j]
        /\ \A j \in 1..(k - 1) : SepOk(text[i + 2 * j - 1], p.sep)
        /\ (i = 1 \/ ~IsWord(text[i - 1]))
        /\ (last = Len(text) \/ ~IsWord(text[last + 1]))

\* tokens consumed by the first alternative, from alternative k on, that
\* matches at i; 0 if none does
RECURSIVE FirstMatchLen(_, _, _, _)
FirstMatchLen(text, i, pats, k) ==
    IF k > Len(pats) THEN 0
    ELSE IF PatternAt(text, i, pats[k]) THEN 2 * Len(pats[k].w) - 1
    ELSE FirstMatchLen(text, i, pats, k + 1)

\* re.compile("|".join(patterns), re.IGNORECASE); `first` holds the words
\* a match can start with
Compile(pats) ==
    [pats |-> pats, first |-> UNION { p.w[1] : p \in Range(pats) }]

\* the matches of a scan that resumes at token i, matchLen[j] being the
\* length of the match that starts at j (0 if none): leftmost first, and
\* the scan resumes after each match
RECURSIVE CountFrom(_, _)
CountFrom(matchLen, i) ==
    LET starts == { j \in i..Len(matchLen) : matchLen[j] > 0 }
    IN  IF starts = {} THEN 0
        ELSE LET j == CHOOSE k \in starts : \A l \in starts : k <= l
             IN  1 + CountFrom(matchLen, j + matchLen[j])

\* len(regex.findall(text))
FindAllCount(text, regex) ==
    CountFrom([j \in DOMAIN text |->
                  IF Lower(text[j]) \in regex.first
                  THEN FirstMatchLen(text, j, regex.pats, 1) ELSE 0], 1)

Weekdays == {"monday", "tuesday", "wednesday", "thursday", "friday",
             "saturday", "sunday"}
Months == {"january", "february", "march", "april", "may", "june", "july",
           "august", "september", "october", "november", "december"}
Numbers == {"2", "5", "10", "123"}

noise_patterns ==
    << Pat(<<{"um", "umm"}>>, "lit"), Pat(<<{"uh", "uhh"}>>, "lit"),
       Pat(<<{"ah", "ahh"}>>, "lit"), Pat(<<{"hmm", "hmmm"}>>, "lit"),
       Pat(<<{"yeah", "yeahh"}>>, "lit"), Pat(<<{"okay", "okayy"}>>, "lit"),
       Pat(<<{"right"}>>, "lit"), Pat(<<{"so"}>>, "lit"),
       Pat(<<{"like"}>>, "lit"), Pat(<<{"you"}, {"know"}>>, "lit"),
       Pat(<<{"i"}, {"mean"}>>, "lit"), Pat(<<{"actually"}>>, "lit"),
       Pat(<<{"basically"}>>, "lit") >>

action_indicators ==
    << Pat(<<{"need"}, {"to"}>>, "lit"), Pat(<<{"should"}>>, "lit"),
       Pat(<<{"must"}>>, "lit"), Pat(<<{"will"}>>, "lit"),
       Pat(<<{"have"}, {"to"}>>, "lit"), Pat(<<{"going"}, {"to"}>>, "lit"),
       Pat(<<{"by"}, Weekdays>>, "ws"),
       Pat(<<{"by"}, {"next", "this"}, {"week", "month"}>>, "ws"),
       Pat(<<{"due"}>>, "lit"), Pat(<<{"deadline"}>>, "lit"),
       Pat(<<{"followup"}>>, "lit"), Pat(<<{"follow"}, {"up"}>>, "opt"),
       Pat(<<{"assign", "assigned", "assignee", "assignment"}>>, "lit"),
       Pat(<<{"action"}, {"item"}>>, "ws"),
       Pat(<<{"todo"}>>, "lit"), Pat(<<{"to"}, {"do"}>>, "opt"),
       Pat(<<{"task"}>>, "lit") >>

temporal_patterns ==
    << Pat(<<{"today", "tomorrow", "yesterday"}>>, "lit"),
       Pat(<<{"this", "next", "last"},
             {"week", "month", "quarter", "year"}>>, "ws"),
       Pat(<<Weekdays>>, "lit"), Pat(<<Months>>, "lit"),
       Pat(<<{"1/2/2026", "01-02-26"}>>, "lit"),
       Pat(<<{"urgent", "asap", "immediately", "soon"}>>, "lit"),
       Pat(<<{"q1", "q2", "q3", "q4"}>>, "lit") >>

specificity_patterns ==
    << Pat(<<Numbers, {"percent", "dollars", "hours", "days", "weeks",
                       "months"}>>, "ws"),
       Pat(<<{"specifically", "exactly", "precisely"}>>, "lit"),
       Pat(<<{"version"}, Numbers>>, "ws"),
       Pat(<<{"proj", "ab", "jira"}, Numbers>>, "dash"),
       Pat(<<{"proj123", "ab2"}>>, "lit") >>

noise_regex == Compile(noise_patterns)
action_regex == Compile(action_indicators)
temporal_regex == Compile(temporal_patterns)
specificity_regex == Compile(specificity_patterns)

noise_matches(text) == FindAllCount(text, noise_regex)
action_matches(text) == FindAllCount(text, action_regex)
temporal_matches(text) == FindAllCount(text, temporal_regex)
specificity_matches(text) == FindAllCount(text, specificity_regex)


\* ------------------------------------------------------------------------
\* Data model (src/src/models/insight.py)
\* ------------------------------------------------------------------------
ContentCategory == {"Action Item", "Insight", "Decision", "Question",
                    "Discussion", "Knowledge", "Idea", "Meeting"}
EntityType == {"PERSON", "ORG", "GPE", "DATE", "TIME", "TOPIC", "PROJECT",
               "PRODUCT", "EVENT", "MONEY", "PERCENT"}
UrgencyLevel == {"low", "medium", "high", "critical"}
PriorityLevel == {"Low", "Medium", "High", "Critical"}

Entity(text, type, confidence) ==
    [text |-> text, type |-> type, confidence |-> confidence]

\* Entity.__hash__ / Entity.__eq__: identity is (text.lower(), type)
EntityKey(e) == <<Lower(e.text), e.type>>

Classification(category, confidence) ==
    [category |-> category, confidence |-> confidence]

\* Optional[SentimentResult] and Optional[Summary]: `present` is FALSE for
\* Python's None
SentimentResult(urgency, tone) ==
    [present |-> TRUE, urgency |-> urgency, emotional_tone |-> tone]

NoSentiment == [present |-> FALSE, urgency |-> "low", emotional_tone |-> None]

Summary(title) == [present |-> TRUE, title |-> title]

NoSummary == [present |-> FALSE, title |-> ""]

QualityScore(i, a, n, c, s, t) ==
    [information_density |-> i, actionability |-> a, novelty |-> n,
     clarity |-> c, specificity |-> s, temporal_relevance |-> t]

\* QualityScore(): every field defaults to 0.0
DefaultQualityScore == QualityScore(R(0), R(0), R(0), R(0), R(0), R(0))

total_score_swapped(q) ==
    RSum(<< RMul(q.information_density, Rat(20, 100)),
            RMul(q.actionability, Rat(25, 100)),
            RMul(q.novelty, Rat(20, 100)),
            RMul(q.clarity, Rat(15, 100)),
            RMul(q.specificity, Rat(10, 100)),
            RMul(q.temporal_relevance, Rat(10, 100)) >>)

\* QualityScore.total_score
total_score(q) ==
    RSum(<< RMul(q.information_density, Rat(25, 100)),
            RMul(q.actionability, Rat(20, 100)),
            RMul(q.novelty, Rat(20, 100)),
            RMul(q.clarity, Rat(15, 100)),
            RMul(q.specificity, Rat(10, 100)),
            RMul(q.temporal_relevance, Rat(10, 100)) >>)

\* ProcessedInsight.get_entities_by_type
RECURSIVE EntitiesOfType(_, _)
EntitiesOfType(s, type) ==
    IF s = <<>> THEN <<>>
    ELSE IF Head(s).type = type THEN <<Head(s)>> \o EntitiesOfType(Tail(s), type)
    ELSE EntitiesOfType(Tail(s), type)

get_entities_by_type(insight, type) == EntitiesOfType(insight.entities, type)

\* {e.type for e in insight.entities}
entity_types(insight) == {e.type : e \in Range(insight.entities)}

\* insight.summary and insight.summary.title
HasSummaryTitle(insight) ==
    insight.summary.present /\ insight.summary.title # ""


\* ------------------------------------------------------------------------
\* QualityFilter (src/src/quality_filter.py)
\* ------------------------------------------------------------------------
_score_information_density_unclamped(insight, word_count) ==
    IF word_count = 0 THEN R(0)
    ELSE
      LET unique_entities ==
              Cardinality({EntityKey(e) : e \in Range(insight.entities)})
          classification_count == Len(insight.classifications)
          density_ratio ==
              Rat((unique_entities + classification_count) * 10, word_count)
          score == RMul(density_ratio, R(5))
          type_diversity_bonus ==
              RMin(R(2), Rat(Cardinality(entity_types(insight)), 2))
      IN  RAdd(score, type_diversity_bonus)

_score_information_density(insight, word_count) ==
    IF word_count = 0 THEN R(0)
    ELSE
      LET unique_entities ==
              Cardinality({EntityKey(e) : e \in Range(insight.entities)})
          classification_count == Len(insight.classifications)
          \* (unique_entities + classification_count) / (word_count / 10)
          density_ratio ==
              Rat((unique_entities + classification_count) * 10, word_count)
          score == RMin(R(10), RMul(density_ratio, R(5)))
          type_diversity_bonus ==
              RMin(R(2), Rat(Cardinality(entity_types(insight)), 2))
      IN  RMin(R(10), RAdd(score, type_diversity_bonus))

_score_actionability(insight, content) ==
    LET action_item_score == RMin(R(5), R(Len(insight.action_items) * 2))
        action_language_score == RMin(R(3), Rat(action_matches(content), 2))
        category_boost ==
            IF insight.primary_category \in {"Action Item", "Decision"}
            THEN R(2) ELSE R(0)
        date_entities == get_entities_by_type(insight, "DATE")
        date_boost ==
            IF date_entities # <<>>
            THEN RMin(R(1), Rat(Len(date_entities), 2)) ELSE R(0)
    IN  RMin(R(10), RSum(<<action_item_score, action_language_score,
                          category_boost, date_boost>>))

\* _score_novelty taking 3.0 off for a content of fewer than 10 words
_score_novelty_short_minus_three(insight, content) ==
    LET word_count == WordCount(content)
        length_term ==
            IF word_count < 10 THEN R(-3)
            ELSE IF word_count > 50 THEN R(1) ELSE R(0)
        type_term == RMin(R(2), Rat(Cardinality(entity_types(insight)), 2))
        multi_term == IF Len(insight.classifications) > 1 THEN R(1) ELSE R(0)
        filler_term ==
            IF insight.primary_category = "Discussion" THEN R(-1) ELSE R(0)
        idea_term ==
            IF insight.primary_category \in {"Idea", "Insight"}
            THEN Rat(3, 2) ELSE R(0)
    IN  RMax(R(0), RMin(R(10),
            RSum(<<R(5), length_term, type_term, multi_term, filler_term,
                   idea_term>>)))

_score_novelty(insight, content) ==
    LET word_count == WordCount(content)
        length_term ==
            IF word_count < 10 THEN R(-2)
            ELSE IF word_count > 50 THEN R(1) ELSE R(0)
        type_term == RMin(R(2), Rat(Cardinality(entity_types(insight)), 2))
        multi_term == IF Len(insight.classifications) > 1 THEN R(1) ELSE R(0)
        filler_term ==
            IF insight.primary_category = "Discussion" THEN R(-1) ELSE R(0)
        idea_term ==
            IF insight.primary_category \in {"Idea", "Insight"}
            THEN Rat(3, 2) ELSE R(0)
    IN  RMax(R(0), RMin(R(10),
            RSum(<<R(5), length_term, type_term, multi_term, filler_term,
                   idea_term>>)))

\* sum(c.confidence for c in classifications)
RECURSIVE ConfidenceSum(_)
ConfidenceSum(cs) ==
    IF cs = <<>> THEN R(0)
    ELSE RAdd(Head(cs).confidence, ConfidenceSum(Tail(cs)))

_score_clarity(insight, content) ==
    LET word_count == WordCount(content)
        \* len(content.split()) / max(1, len(sentences))
        avg_sentence_length == Rat(word_count, SentenceCount(content))
        sentence_term ==
            IF RGt(avg_sentence_length, R(30)) THEN R(-2)
            ELSE IF RLt(avg_sentence_length, R(15)) THEN R(1) ELSE R(0)
        noise_term ==
            IF word_count > 0
            THEN LET noise_ratio == Rat(noise_matches(content), word_count)
                 IN  IF RGt(noise_ratio, Rat(1, 10))
                     THEN RNeg(RMin(R(3), RMul(noise_ratio, R(10))))
                     ELSE R(0)
            ELSE R(0)
        summary_term == IF HasSummaryTitle(insight) THEN R(1) ELSE R(0)
        confidence_term ==
            IF insight.classifications # <<>>
            THEN LET avg_confidence ==
                         RMul(ConfidenceSum(insight.classifications),
                              Rat(1, Len(insight.classifications)))
                 IN  IF RGt(avg_confidence, Rat(8, 10)) THEN R(1)
                     ELSE IF RLt(avg_confidence, Rat(5, 10)) THEN R(-1)
                     ELSE R(0)
            ELSE R(0)
    IN  RMax(R(0), RMin(R(10),
            RSum(<<R(7), sentence_term, noise_term, summary_term,
                   confidence_term>>)))


_score_specificity(insight, content) ==
    LET pattern_term == RMin(R(3), R(specificity_matches(content)))
        person_entities == get_entities_by_type(insight, "PERSON")
        org_entities == get_entities_by_type(insight, "ORG")
        project_entities == get_entities_by_type(insight, "PROJECT")
    IN  RMax(R(0), RMin(R(10),
            RSum(<<R(5), pattern_term,
                   RMin(R(1), Rat(Len(person_entities) * 3, 10)),
                   RMin(R(1), Rat(Len(org_entities), 2)),
                   RMin(Rat(3, 2), Rat(Len(project_entities) * 3, 4))>>)))

_score_temporal_relevance(insight, content) ==
    LET pattern_term == RMin(R(3), Rat(temporal_matches(content) * 3, 4))
        date_entities == get_entities_by_type(insight, "DATE")
        time_entities == get_entities_by_type(insight, "TIME")
        entity_term ==
            RMin(R(2), Rat(Len(date_entities) + Len(time_entities), 2))
        urgency_term ==
            IF insight.sentiment.present
               /\ insight.sentiment.urgency \in {"high", "critical"}
            THEN R(2) ELSE R(0)
    IN  RMax(R(0), RMin(R(10),
            RSum(<<R(5), pattern_term, entity_term, urgency_term>>)))

calculate_quality_score_no_sentinel(insight) ==
    LET content == insight.original_content
        word_count == WordCount(content)
    IN  QualityScore(_score_information_density(insight, word_count),
                     _score_actionability(insight, content),
                     _score_novelty(insight, content),
                     _score_clarity(insight, content),
                     _score_specificity(insight, content),
                     _score_temporal_relevance(insight, content))

calculate_quality_score(insight) ==
    LET content == insight.original_content
        word_count == WordCount(content)
    IN  IF word_count = 0 THEN DefaultQualityScore
        ELSE QualityScore(_score_information_density(insight, word_count),
                          _score_actionability(insight, content),
                          _score_novelty(insight, content),
                          _score_clarity(insight, content),
                          _score_specificity(insight, content),
                          _score_temporal_relevance(insight, content))

\* max(c.confidence for c in classifications), classifications non-empty
RECURSIVE MaxConfidence(_)
MaxConfidence(cs) ==
    IF Len(cs) = 1 THEN Head(cs).confidence
    ELSE RMax(Head(cs).confidence, MaxConfidence(Tail(cs)))

TooShort == "Content too short"
NoClassifications == "No classifications found"
LowConfidence == "Low classification confidence"
MissingTitle == "Missing summary title"

check_completeness_first_only(qf, insight) ==
    LET issues ==
            IF StrLen(insight.original_content) < qf.min_content_length
            THEN <<TooShort>>
            ELSE IF insight.classifications = <<>>
            THEN <<NoClassifications>>
            ELSE IF RLt(MaxConfidence(insight.classifications),
                        qf.min_confidence)
            THEN <<LowConfidence>>
            ELSE IF ~HasSummaryTitle(insight) THEN <<MissingTitle>>
            ELSE <<>>
    IN  [is_complete |-> Len(issues) = 0, issues |-> issues]

check_completeness(qf, insight) ==
    LET issues ==
            (IF StrLen(insight.original_content) < qf.min_content_length
             THEN <<TooShort>> ELSE <<>>)
            \o (IF insight.classifications = <<>>
                THEN <<NoClassifications>> ELSE <<>>)
            \o (IF insight.classifications # <<>>
                   /\ RLt(MaxConfidence(insight.classifications),
                          qf.min_confidence)
                THEN <<LowConfidence>> ELSE <<>>)
            \o (IF ~HasSummaryTitle(insight)
                THEN <<MissingTitle>> ELSE <<>>)
    IN  [is_complete |-> Len(issues) = 0, issues |-> issues]

calculate_noise_ratio(text) ==
    LET words == WordCount(text)
    IN  IF words = 0 THEN R(0)
        ELSE RMin(R(1), Rat(noise_matches(text), words))

should_sync_score_only(qf, insight) ==
    RGe(total_score(insight.quality_score), qf.min_relevance_score)

\* QualityFilter.should_sync
should_sync(qf, insight) ==
    IF ~check_completeness(qf, insight).is_complete THEN FALSE
    ELSE IF RGt(calculate_noise_ratio(insight.original_content),
                qf.max_noise_ratio) THEN FALSE
    ELSE IF RLt(total_score(insight.quality_score), qf.min_relevance_score)
    THEN FALSE
    ELSE TRUE

\* the sync_priority of assess without its "low" bucket
sync_priority_label_without_low(total) ==
    IF RGe(total, R(7)) THEN "high"
    ELSE IF RGe(total, R(5)) THEN "medium"
    ELSE "none"

\* the sync_priority entry of the dictionary returned by assess
sync_priority_label(total) ==
    IF RGe(total, R(7)) THEN "high"
    ELSE IF RGe(total, R(5)) THEN "medium"
    ELSE IF RGe(total, R(3)) THEN "low"
    ELSE "none"

\* the report with the relevance gate applied to the score the insight
\* carried before the call
assess_report_with_stored_score(qf, insight) ==
    LET quality_score == calculate_quality_score(insight)
        completeness == check_completeness(qf, insight)
        noise_ratio == calculate_noise_ratio(insight.original_content)
    IN  [quality_score |-> quality_score,
         total_score |-> total_score(quality_score),
         is_complete |-> completeness.is_complete,
         completeness_issues |-> completeness.issues,
         noise_ratio |-> noise_ratio,
         should_sync |-> /\ completeness.is_complete
                         /\ RLe(noise_ratio, qf.max_noise_ratio)
                         /\ RGe(total_score(insight.quality_score),
                                qf.min_relevance_score),
         sync_priority |-> sync_priority_label(total_score(quality_score))]

\* the dictionary returned by QualityFilter.assess
assess_report(qf, insight) ==
    LET quality_score == calculate_quality_score(insight)
        completeness == check_completeness(qf, insight)
        noise_ratio == calculate_noise_ratio(insight.original_content)
    IN  [quality_score |-> quality_score,
         total_score |-> total_score(quality_score),
         is_complete |-> completeness.is_complete,
         completeness_issues |-> completeness.issues,
         noise_ratio |-> noise_ratio,
         should_sync |-> /\ completeness.is_complete
                         /\ RLe(noise_ratio, qf.max_noise_ratio)
                         /\ RGe(total_score(quality_score),
                                qf.min_relevance_score),
         sync_priority |-> sync_priority_label(total_score(quality_score))]


\* ------------------------------------------------------------------------
\* ProcessedInsight (src/src/models/insight.py)
\* ------------------------------------------------------------------------
ProcessedInsight(id, content, cls, primary, ents, items, sent, intent, summ, tags) ==
    [transcript_id |-> id,
     original_content |-> content,
     classifications |-> cls,
     primary_category |-> primary,
     entities |-> ents,
     action_items |-> items,
     sentiment |-> sent,
     intent |-> intent,
     summary |-> summ,
     quality_score |-> DefaultQualityScore,
     tags |-> tags,
     priority |-> "Medium",
     related_insight_ids |-> <<>>,
     processed_at |-> 0]

relevance_score_at_construction(insight) == total_score(DefaultQualityScore)

\* ProcessedInsight.relevance_score
relevance_score(insight) == total_score(insight.quality_score)

\* ProcessedInsight.should_sync
insight_should_sync(insight) == RGe(relevance_score(insight), R(5))

\* ProcessedInsight.sync_priority
insight_sync_priority(insight) ==
    LET score == relevance_score(insight)
    IN  IF RGe(score, R(7)) THEN "high"
        ELSE IF RGe(score, R(5)) THEN "medium"
        ELSE IF RGe(score, R(3)) THEN "low"
        ELSE "none"

\* ------------------------------------------------------------------------
\* EnrichmentModule (src/src/enrichment.py)
\* ------------------------------------------------------------------------
max_tags == 15
min_tag_relevance == Rat(3, 10)

_stop_words ==
    {"the", "a", "an", "and", "or", "but", "in", "on", "at", "to",
     "for", "of", "with", "by", "from", "as", "is", "was", "are",
     "were", "been", "be", "have", "has", "had", "do", "does", "did",
     "will", "would", "could", "should", "may", "might", "must",
     "shall", "can", "need", "dare", "ought", "used", "it", "its",
     "that", "this", "these", "those", "i", "you", "he", "she", "we",
     "they", "what", "which", "who", "whom", "where", "when", "why",
     "how", "all", "each", "every", "both", "few", "more", "most",
     "other", "some", "such", "no", "nor", "not", "only", "own",
     "same", "so", "than", "too", "very", "just", "also", "now",
     "here", "there", "about", "after", "before", "between", "into",
     "through", "during", "under", "over", "again", "then", "once"}

\* _priority_keywords, in the iteration order of the dict
_priority_keywords ==
    << [level |-> "Critical",
        keywords |-> {"urgent", "critical", "emergency", "asap",
                      "immediately", "blocker", "showstopper", "crisis"}],
       [level |-> "High",
        keywords |-> {"important", "priority", "deadline", "due", "must",
                      "required", "essential", "key", "major"}],
       [level |-> "Medium",
        keywords |-> {"should", "need", "want", "plan", "schedule"}],
       [level |-> "Low",
        keywords |-> {"maybe", "sometime", "eventually", "nice to have",
                      "low priority", "when possible"}] >>

\* _normalize_tag on the strings of the vocabulary it changes: lower-case,
\* runs of characters outside [a-z0-9] become one hyphen, hyphens stripped;
\* the other strings of the vocabulary consist of [a-z0-9] only
NormalizeTagPairs ==
    { <<"Action Item", "action-item">>, <<"Insight", "insight">>,
      <<"Decision", "decision">>, <<"Question", "question">>,
      <<"Discussion", "discussion">>, <<"Knowledge", "knowledge">>,
      <<"Idea", "idea">>, <<"Meeting", "meeting">>,
      <<"Informational", "informational">>, <<"Actionable", "actionable">>,
      <<"Exploratory", "exploratory">>, <<"Collaborative", "collaborative">>,
      <<"Reflective", "reflective">>,
      <<"next Friday", "next-friday">>, <<"John", "john">>,
      <<"Acme", "acme">>, <<"Apollo", "apollo">>, <<"Zeus", "zeus">>,
      <<"Ann", "ann">>, <<"The", "the">>, <<"!!", "">>, <<"Q", "q">>,
      <<"Very Calm", "very-calm">> }

NormalizeTagTable ==
    [t \in {p[1] : p \in NormalizeTagPairs} |->
        (CHOOSE p \in NormalizeTagPairs : p[1] = t)[2]]

_normalize_tag(text) ==
    IF text \in DOMAIN NormalizeTagTable THEN NormalizeTagTable[text]
    ELSE text

_entity_tag_weight(type) ==
    CASE type = "PROJECT" -> R(1)
      [] type = "PRODUCT" -> Rat(9, 10)
      [] type = "TOPIC" -> Rat(8, 10)
      [] type = "ORG" -> Rat(7, 10)
      [] type = "PERSON" -> Rat(6, 10)
      [] type = "EVENT" -> Rat(6, 10)
      [] type = "GPE" -> Rat(4, 10)
      [] type = "DATE" -> Rat(3, 10)
      [] type = "TIME" -> Rat(2, 10)
      [] type = "MONEY" -> Rat(5, 10)
      [] type = "PERCENT" -> Rat(3, 10)
      [] OTHER -> Rat(5, 10)

\* Counter: a sequence of [tag, score] in insertion order
IndexOfTag(counter, tag) ==
    IF \E i \in DOMAIN counter : counter[i].tag = tag
    THEN CHOOSE i \in DOMAIN counter : counter[i].tag = tag
    ELSE 0

\* counter[tag] += x
AddScore(counter, tag, x) ==
    LET i == IndexOfTag(counter, tag)
    IN  IF i = 0 THEN Append(counter, [tag |-> tag, score |-> x])
        ELSE [counter EXCEPT ![i].score = RAdd(@, x)]

\* re.findall(r"\b\w{3,}\b", content.lower()): the word tokens of three or
\* more characters, lower-cased, in order
RECURSIVE LongWords(_, _)
LongWords(content, i) ==
    IF i > Len(content) THEN <<>>
    ELSE IF IsWord(content[i]) /\ Len(content[i]) >= 3
    THEN <<Lower(content[i])>> \o LongWords(content, i + 1)
    ELSE LongWords(content, i + 1)

\* the distinct elements of a sequence, in order of first occurrence
RECURSIVE Distinct(_, _)
Distinct(s, seen) ==
    IF s = <<>> THEN <<>>
    ELSE IF Head(s) \in seen THEN Distinct(Tail(s), seen)
    ELSE <<Head(s)>> \o Distinct(Tail(s), seen \cup {Head(s)})

RECURSIVE ContentTagsFrom(_, _, _)
ContentTagsFrom(distinct, words, i) ==
    IF i > Len(distinct) THEN <<>>
    ELSE LET word == distinct[i]
             count == Occurrences(words, word)
             tf_score == Rat(count, Len(words))
             length_bonus == RMin(R(1), Rat(Len(word), 10))
             score == RAdd(RMul(tf_score, R(10)),
                           RMul(length_bonus, Rat(3, 10)))
             rest == ContentTagsFrom(distinct, words, i + 1)
         IN  IF word \in _stop_words THEN rest
             ELSE IF RGe(score, Rat(1, 10))
             THEN <<[tag |-> word, score |-> score]>> \o rest
             ELSE rest

_extract_content_tags(content) ==
    LET words == LongWords(content, 1)
    IN  IF Len(words) = 0 THEN <<>>
        ELSE ContentTagsFrom(Distinct(words, {}), words, 1)

RECURSIVE AddClassificationTags(_, _, _)
AddClassificationTags(counter, cls, i) ==
    IF i > Len(cls) THEN counter
    ELSE AddClassificationTags(
             AddScore(counter, _normalize_tag(cls[i].category),
                      RMul(cls[i].confidence, Rat(1, 2))),
             cls, i + 1)

RECURSIVE AddEntityTags(_, _, _)
AddEntityTags(counter, ents, i) ==
    IF i > Len(ents) THEN counter
    ELSE LET tag == _normalize_tag(ents[i].text)
             weight == _entity_tag_weight(ents[i].type)
         IN  AddEntityTags(
                 IF Len(tag) >= 2
                 THEN AddScore(counter, tag,
                               RMul(ents[i].confidence, weight))
                 ELSE counter,
                 ents, i + 1)

RECURSIVE AddContentTags(_, _, _)
AddContentTags(counter, content_tags, i) ==
    IF i > Len(content_tags) THEN counter
    ELSE AddContentTags(
             AddScore(counter, content_tags[i].tag, content_tags[i].score),
             content_tags, i + 1)

\* sorted(..., key=score, reverse=True): stable, so equal scores keep their
\* insertion order
RECURSIVE SortByScoreDescending(_)
SortByScoreDescending(items) ==
    IF items = <<>> THEN <<>>
    ELSE LET best == CHOOSE i \in DOMAIN items :
                        /\ \A j \in DOMAIN items :
                              RGe(items[i].score, items[j].score)
                        /\ \A j \in 1..(i - 1) :
                              RLt(items[j].score, items[i].score)
         IN  <<items[best]>> \o
             SortByScoreDescending(
                 SubSeq(items, 1, best - 1) \o
                 SubSeq(items, best + 1, Len(items)))

tag_scores(insight) ==
    LET c0 == <<>>
        c1 == IF insight.primary_category # None
              THEN AddScore(c0, _normalize_tag(insight.primary_category),
                            R(1))
              ELSE c0
        c2 == AddClassificationTags(c1, insight.classifications, 1)
        c3 == AddEntityTags(c2, insight.entities, 1)
        c4 == IF insight.intent # None
              THEN AddScore(c3, _normalize_tag(insight.intent), Rat(7, 10))
              ELSE c3
        c5 == IF insight.sentiment.present
                 /\ insight.sentiment.urgency \in {"high", "critical"}
              THEN AddScore(c4, "urgent", Rat(8, 10))
              ELSE c4
        c6 == IF insight.sentiment.present
                 /\ insight.sentiment.emotional_tone # None
                 /\ insight.sentiment.emotional_tone # ""
              THEN AddScore(c5,
                            _normalize_tag(insight.sentiment.emotional_tone),
                            Rat(1, 2))
              ELSE c5
    IN  AddContentTags(c6,
                       _extract_content_tags(insight.original_content), 1)

\* generate_tags without the cut to max_tags
generate_tags_untruncated(insight) ==
    LET scores == tag_scores(insight)
        filtered_tags ==
            SelectSeq(scores,
                      LAMBDA e : /\ RGe(e.score, min_tag_relevance)
                                 /\ e.tag \notin _stop_words
                                 /\ Len(e.tag) >= 2)
        sorted_tags == SortByScoreDescending(filtered_tags)
    IN  [i \in 1..Len(sorted_tags) |-> sorted_tags[i].tag]

generate_tags(insight) ==
    LET scores == tag_scores(insight)
        filtered_tags ==
            SelectSeq(scores,
                      LAMBDA e : /\ RGe(e.score, min_tag_relevance)
                                 /\ e.tag \notin _stop_words
                                 /\ Len(e.tag) >= 2)
        sorted_tags == SortByScoreDescending(filtered_tags)
        n == IF Len(sorted_tags) < max_tags THEN Len(sorted_tags)
             ELSE max_tags
    IN  [i \in 1..n |-> sorted_tags[i].tag]

\* `keyword in content_lower` is a substring test: a word of the content
\* contains a keyword when it equals it or is listed here with it
SubstringPairs ==
    { <<"overdue", "due">>, <<"keyboard", "key">>, <<"planet", "plan">> }

ContainsKeyword(content, keyword) ==
    \E i \in DOMAIN content :
        \/ Lower(content[i]) = keyword
        \/ <<Lower(content[i]), keyword>> \in SubstringPairs
        \/ /\ keyword = "nice to have"
           /\ i + 4 <= Len(content)
           /\ [k \in 1..5 |-> Lower(content[i + k - 1])]
                  = <<"nice", " ", "to", " ", "have">>
        \/ /\ keyword = "low priority"
           /\ i + 2 <= Len(content)
           /\ [k \in 1..3 |-> Lower(content[i + k - 1])]
                  = <<"low", " ", "priority">>
        \/ /\ keyword = "when possible"
           /\ i + 2 <= Len(content)
           /\ [k \in 1..3 |-> Lower(content[i + k - 1])]
                  = <<"when", " ", "possible">>

\* the keyword loop adding the boost of every level with a keyword in the
\* content
RECURSIVE KeywordBoostOfEveryLevel(_, _)
RECURSIVE KeywordBoost(_, _)
KeywordBoostOfEveryLevel(content, i) ==
    IF i > Len(_priority_keywords) THEN R(0)
    ELSE IF \E keyword \in _priority_keywords[i].keywords :
                ContainsKeyword(content, keyword)
    THEN RAdd(CASE _priority_keywords[i].level = "Critical" -> R(3)
                [] _priority_keywords[i].level = "High" -> R(2)
                [] _priority_keywords[i].level = "Medium" -> R(1)
                [] OTHER -> R(0),
              KeywordBoostOfEveryLevel(content, i + 1))
    ELSE KeywordBoostOfEveryLevel(content, i + 1)

\* the keyword loop of assign_priority: the first level, in dict order, with
\* a keyword in the content ends the search
KeywordBoost(content, i) ==
    IF i > Len(_priority_keywords) THEN R(0)
    ELSE IF \E keyword \in _priority_keywords[i].keywords :
                ContainsKeyword(content, keyword)
    THEN CASE _priority_keywords[i].level = "Critical" -> R(3)
           [] _priority_keywords[i].level = "High" -> R(2)
           [] _priority_keywords[i].level = "Medium" -> R(1)
           [] OTHER -> R(0)
    ELSE KeywordBoost(content, i + 1)

category_boosts(category) ==
    CASE category = "Action Item" -> R(2)
      [] category = "Decision" -> Rat(3, 2)
      [] category = "Question" -> R(1)
      [] category = "Meeting" -> Rat(1, 2)
      [] category = "Insight" -> Rat(1, 2)
      [] OTHER -> R(0)

\* the urgency boosts without the entry for UrgencyLevel.CRITICAL
urgency_boost_without_critical(urgency) ==
    CASE urgency = "high" -> R(2)
      [] urgency = "medium" -> R(1)
      [] OTHER -> R(0)

urgency_boost(urgency) ==
    CASE urgency = "critical" -> R(3)
      [] urgency = "high" -> R(2)
      [] urgency = "medium" -> R(1)
      [] OTHER -> R(0)

priority_score(insight) ==
    LET keyword == KeywordBoost(insight.original_content, 1)
        category == IF insight.primary_category # None
                    THEN category_boosts(insight.primary_category)
                    ELSE R(0)
        urgency == IF insight.sentiment.present
                   THEN urgency_boost(insight.sentiment.urgency)
                   ELSE R(0)
        quality == IF RGe(insight.quality_score.actionability, R(8))
                   THEN Rat(3, 2)
                   ELSE IF RGe(insight.quality_score.actionability, R(6))
                   THEN Rat(3, 4)
                   ELSE R(0)
        date_entities == get_entities_by_type(insight, "DATE")
        dates == IF Len(date_entities) > 0
                 THEN RMin(Rat(3, 2), Rat(Len(date_entities), 2))
                 ELSE R(0)
        actions == IF Len(insight.action_items) > 0
                   THEN RMin(R(2), Rat(Len(insight.action_items), 2))
                   ELSE R(0)
    IN  RSum(<<keyword, category, urgency, quality, dates, actions>>)

assign_priority(insight) ==
    LET score == priority_score(insight)
    IN  IF RGe(score, R(6)) THEN "Critical"
        ELSE IF RGe(score, R(4)) THEN "High"
        ELSE IF RGe(score, R(2)) THEN "Medium"
        ELSE "Low"

\* the default similarity_threshold of map_relationships
map_relationships_threshold == Rat(3, 10)

\* |a & b| / |a | b|, 0 when both are empty
OverlapRatio(a, b) ==
    IF Cardinality(a \cup b) > 0
    THEN Rat(Cardinality(a \cap b), Cardinality(a \cup b))
    ELSE R(0)

relationship_similarity(insight, other) ==
    LET tag_similarity == OverlapRatio(Range(insight.tags), Range(other.tags))
        entity_similarity ==
            OverlapRatio({EntityKey(e) : e \in Range(insight.entities)},
                         {EntityKey(e) : e \in Range(other.entities)})
        category_bonus ==
            IF insight.primary_category # None
               /\ insight.primary_category = other.primary_category
            THEN Rat(1, 10) ELSE R(0)
    IN  RSum(<<RMul(tag_similarity, Rat(4, 10)),
               RMul(entity_similarity, Rat(5, 10)),
               category_bonus>>)

RECURSIVE RelatedFrom(_, _, _, _)
RelatedFrom(insight, existing_insights, similarity_threshold, i) ==
    IF i > Len(existing_insights) THEN <<>>
    ELSE LET other == existing_insights[i]
             rest == RelatedFrom(insight, existing_insights,
                                 similarity_threshold, i + 1)
         IN  IF other.transcript_id = insight.transcript_id THEN rest
             ELSE IF RGe(relationship_similarity(insight, other),
                         similarity_threshold)
             THEN <<other.transcript_id>> \o rest
             ELSE rest

\* the loop of map_relationships without the check of the transcript_id
RECURSIVE RelatedWithSelfFrom(_, _, _, _)
RelatedWithSelfFrom(insight, existing_insights, similarity_threshold, i) ==
    IF i > Len(existing_insights) THEN <<>>
    ELSE LET other == existing_insights[i]
             rest == RelatedWithSelfFrom(insight, existing_insights,
                                         similarity_threshold, i + 1)
         IN  IF RGe(relationship_similarity(insight, other),
                    similarity_threshold)
             THEN <<other.transcript_id>> \o rest
             ELSE rest

map_relationships_including_self(insight, existing_insights, similarity_threshold) ==
    RelatedWithSelfFrom(insight, existing_insights, similarity_threshold, 1)

map_relationships(insight, existing_insights, similarity_threshold) ==
    RelatedFrom(insight, existing_insights, similarity_threshold, 1)

\* list(set(ids)): the distinct ids in an order the language leaves open
ListsOfSet(ids) ==
    { order \in [1..Cardinality(ids) -> ids] :
        \A i, j \in DOMAIN order : order[i] = order[j] => i = j }

\* enrich, first step, generating the tags whether or not some are set
enrich_tags_always(insight) ==
    [insight EXCEPT !.tags = generate_tags(insight)]

\* enrich, first step: tags are generated only when the insight has none
enrich_tags(insight) ==
    IF insight.tags = <<>>
    THEN [insight EXCEPT !.tags = generate_tags(insight)]
    ELSE insight

\* enrich, second step: the priority is always recomputed
enrich_priority(insight) ==
    [insight EXCEPT !.priority = assign_priority(insight)]

\* enrich, third step, appending the related ids without list(set(...))
enrich_relationships_without_set(insight, existing_insights) ==
    IF existing_insights # <<>>
    THEN {insight.related_insight_ids \o
          map_relationships(insight, existing_insights,
                            map_relationships_threshold)}
    ELSE {insight.related_insight_ids}

\* enrich, third step: with a non-empty comparison set the related ids are
\* appended and the list becomes list(set(...)), in any order
enrich_relationships(insight, existing_insights) ==
    IF existing_insights # <<>>
    THEN ListsOfSet(Range(insight.related_insight_ids \o
                          map_relationships(insight, existing_insights,
                                            map_relationships_threshold)))
    ELSE {insight.related_insight_ids}

\* enrich, last step: processed_at is refreshed from the clock
enrich_finish(insight, existing_insights, clock) ==
    { [insight EXCEPT !.related_insight_ids = related,
                      !.processed_at = clock] :
        related \in enrich_relationships(insight, existing_insights) }

\* enrich mapping the relationships with the tags the insight had on entry
enrich_mapping_before_tags(insight, existing_insights, clock) ==
    { [enrich_priority(enrich_tags(insight)) EXCEPT
          !.related_insight_ids = related, !.processed_at = clock] :
        related \in enrich_relationships(insight, existing_insights) }

\* enrich(insight, existing_insights): the insights it can leave behind;
\* existing_insights = <<>> stands for both None and the empty list, which
\* the code treats alike
enrich(insight, existing_insights, clock) ==
    enrich_finish(enrich_priority(enrich_tags(insight)), existing_insights,
                  clock)

\* ------------------------------------------------------------------------
\* DuplicateDetector (src/src/utils/deduplication.py)
\* ------------------------------------------------------------------------
DuplicateDetector(threshold, overlap) ==
    [similarity_threshold |-> threshold, min_word_overlap |-> overlap]

DefaultDuplicateDetector == DuplicateDetector(Rat(8, 10), Rat(6, 10))

\* tokens i..j of a text joined into one string
RECURSIVE Join(_, _, _)
Join(text, i, j) ==
    IF i > j THEN "" ELSE text[i] \o Join(text, i + 1, j)

\* _normalize_text, as tokens: lower-case; every whitespace run becomes one
\* space; then punctuation is deleted (which can leave two spaces side by
\* side, and can join the words on either side of a hyphen); then the ends
\* are stripped of whitespace
NormalizeTokens(text) ==
    LET lowered == [i \in DOMAIN text |->
                       IF IsSpace(text[i]) THEN " " ELSE Lower(text[i])]
        kept == SelectSeq(lowered, LAMBDA t : ~IsPunct(t))
        nonspace == { i \in DOMAIN kept : kept[i] # " " }
    IN  IF nonspace = {} THEN <<>>
        ELSE SubSeq(kept,
                    CHOOSE i \in nonspace : \A j \in nonspace : i <= j,
                    CHOOSE i \in nonspace : \A j \in nonspace : i >= j)

_normalize_text(text) ==
    LET tokens == NormalizeTokens(text)
    IN  Join(tokens, 1, Len(tokens))

\* calculate_content_hash: the SHA-256 of the normalized text, taken to be
\* collision-free, so a hash is identified with the text hashed
calculate_content_hash(content) == _normalize_text(content)

\* the words of a normalized token sequence from token i on: the maximal
\* runs of non-space tokens, each joined into one word
RECURSIVE WordsFrom(_, _)
WordsFrom(tokens, i) ==
    IF i > Len(tokens) THEN <<>>
    ELSE IF tokens[i] = " " THEN WordsFrom(tokens, i + 1)
    ELSE LET last == CHOOSE j \in i..Len(tokens) :
                        /\ \A k \in i..j : tokens[k] # " "
                        /\ (j = Len(tokens) \/ tokens[j + 1] = " ")
         IN  <<Join(tokens, i, last)>> \o WordsFrom(tokens, last + 1)

\* _normalize_text(text).split()
SplitWords(text) == WordsFrom(NormalizeTokens(text), 1)

_get_word_set(text) == Range(SplitWords(text))

\* Jaccard similarity smoothed by one shared pseudo-word
calculate_similarity_smoothed(text1, text2) ==
    LET words1 == _get_word_set(text1)
        words2 == _get_word_set(text2)
    IN  IF words1 = {} \/ words2 = {} THEN R(0)
        ELSE Rat(Cardinality(words1 \cap words2) + 1,
                 Cardinality(words1 \cup words2) + 1)

\* calculate_similarity: Jaccard similarity of the word sets
calculate_similarity(text1, text2) ==
    LET words1 == _get_word_set(text1)
        words2 == _get_word_set(text2)
    IN  IF words1 = {} \/ words2 = {} THEN R(0)
        ELSE Rat(Cardinality(words1 \cap words2),
                 Cardinality(words1 \cup words2))

\* sum(counter1[term] * counter2[term] for term in terms)
RECURSIVE DotProduct(_, _, _)
DotProduct(words1, words2, terms) ==
    IF terms = {} THEN 0
    ELSE LET term == CHOOSE x \in terms : TRUE
         IN  Occurrences(words1, term) * Occurrences(words2, term)
                 + DotProduct(words1, words2, terms \ {term})

\* calculate_cosine_similarity of the term-frequency vectors. The cosine is
\* dot / sqrt(squares), kept as the pair of integers so that comparisons
\* are exact; 0 is [dot |-> 0, squares |-> 1]
calculate_cosine_similarity(text1, text2) ==
    LET words1 == SplitWords(text1)
        words2 == SplitWords(text2)
        all_terms == Range(words1) \cup Range(words2)
        dot_product == DotProduct(words1, words2, all_terms)
        squares1 == DotProduct(words1, words1, Range(words1))
        squares2 == DotProduct(words2, words2, Range(words2))
    IN  IF words1 = <<>> \/ words2 = <<>>
        THEN [dot |-> 0, squares |-> 1]
        ELSE [dot |-> dot_product, squares |-> squares1 * squares2]

\* calculate_entity_overlap
calculate_entity_overlap(insight1, insight2) ==
    LET entities1 == {EntityKey(e) : e \in Range(insight1.entities)}
        entities2 == {EntityKey(e) : e \in Range(insight2.entities)}
    IN  IF entities1 = {} \/ entities2 = {} THEN R(0)
        ELSE Rat(Cardinality(entities1 \cap entities2),
                 Cardinality(entities1 \cup entities2))

\* the combined score with the weights 0.5, 0.5 and 0.2
combined_at_least_heavier(text_similarity, cosine, entity_overlap, threshold) ==
    LET rest == RSub(threshold,
                     RAdd(RMul(text_similarity, Rat(5, 10)),
                          RMul(entity_overlap, Rat(2, 10))))
        part == RMul(Rat(5, 10), R(cosine.dot))
    IN  \/ RLe(rest, R(0))
        \/ RGe(RMul(part, part), RMul(RMul(rest, rest), R(cosine.squares)))

\* text_similarity * 0.4 + cosine_similarity * 0.4 + entity_overlap * 0.2
\* >= threshold, with the cosine's square root removed by squaring:
\* 0.4 * dot / sqrt(squares) >= rest  iff  rest <= 0 or
\* (0.4 * dot)^2 >= rest^2 * squares
combined_at_least(text_similarity, cosine, entity_overlap, threshold) ==
    LET rest == RSub(threshold,
                     RAdd(RMul(text_similarity, Rat(4, 10)),
                          RMul(entity_overlap, Rat(2, 10))))
        part == RMul(Rat(4, 10), R(cosine.dot))
    IN  \/ RLe(rest, R(0))
        \/ RGe(RMul(part, part), RMul(RMul(rest, rest), R(cosine.squares)))

is_duplicate_without_early_exit(detector, insight1, insight2) ==
    LET hash1 == calculate_content_hash(insight1.original_content)
        hash2 == calculate_content_hash(insight2.original_content)
    IN  IF hash1 = hash2 THEN TRUE
        ELSE combined_at_least(
                 calculate_similarity(insight1.original_content,
                                      insight2.original_content),
                 calculate_cosine_similarity(insight1.original_content,
                                             insight2.original_content),
                 calculate_entity_overlap(insight1, insight2),
                 detector.similarity_threshold)

is_duplicate(detector, insight1, insight2) ==
    LET hash1 == calculate_content_hash(insight1.original_content)
        hash2 == calculate_content_hash(insight2.original_content)
        text_similarity ==
            calculate_similarity(insight1.original_content,
                                 insight2.original_content)
    IN  IF hash1 = hash2 THEN TRUE
        ELSE IF RLt(text_similarity, detector.min_word_overlap) THEN FALSE
        ELSE combined_at_least(
                 text_similarity,
                 calculate_cosine_similarity(insight1.original_content,
                                             insight2.original_content),
                 calculate_entity_overlap(insight1, insight2),
                 detector.similarity_threshold)

\* the loop of deduplicate_list from insight i on: `unique` holds the
\* positions accepted so far, seen_hashes the hashes of their contents
RECURSIVE DeduplicateFrom(_, _, _, _, _)
DeduplicateFrom(detector, insights, i, unique, seen_hashes) ==
    IF i > Len(insights) THEN unique
    ELSE LET content_hash ==
                 calculate_content_hash(insights[i].original_content)
             is_near_dup ==
                 \E k \in DOMAIN unique :
                     is_duplicate(detector, insights[i], insights[unique[k]])
         IN  IF content_hash \in seen_hashes
             THEN DeduplicateFrom(detector, insights, i + 1, unique,
                                  seen_hashes)
             ELSE IF is_near_dup
             THEN DeduplicateFrom(detector, insights, i + 1, unique,
                                  seen_hashes)
             ELSE DeduplicateFrom(detector, insights, i + 1,
                                  Append(unique, i),
                                  seen_hashes \cup {content_hash})

\* the positions kept when only exact duplicates are removed
deduplicate_positions_by_hash(detector, insights) ==
    SelectSeq([i \in DOMAIN insights |-> i],
              LAMBDA i : \A j \in 1..(i - 1) :
                  calculate_content_hash(insights[j].original_content)
                      # calculate_content_hash(insights[i].original_content))

\* the positions, in the input, of the insights deduplicate_list returns
deduplicate_positions(detector, insights) ==
    DeduplicateFrom(detector, insights, 1, <<>>, {})

\* deduplicate_list comparing each insight with its predecessor in the
\* input only
RECURSIVE DeduplicateAdjacentFrom(_, _, _, _, _)
DeduplicateAdjacentFrom(detector, insights, i, unique, seen_hashes) ==
    IF i > Len(insights) THEN unique
    ELSE LET content_hash ==
                 calculate_content_hash(insights[i].original_content)
             is_near_dup ==
                 i > 1 /\ is_duplicate(detector, insights[i], insights[i - 1])
         IN  IF content_hash \in seen_hashes \/ is_near_dup
             THEN DeduplicateAdjacentFrom(detector, insights, i + 1, unique,
                                          seen_hashes)
             ELSE DeduplicateAdjacentFrom(detector, insights, i + 1,
                                          Append(unique, i),
                                          seen_hashes \cup {content_hash})

deduplicate_list_adjacent(detector, insights) ==
    LET kept == DeduplicateAdjacentFrom(detector, insights, 1, <<>>, {})
    IN  [k \in DOMAIN kept |-> insights[kept[k]]]

deduplicate_list(detector, insights) ==
    LET kept == deduplicate_positions(detector, insights)
    IN  [k \in DOMAIN kept |-> insights[kept[k]]]

\* words i..j joined by single spaces: " ".join(words[i-1:j])
RECURSIVE JoinWords(_, _, _)
JoinWords(words, i, j) ==
    IF i > j THEN ""
    ELSE IF i = j THEN words[i]
    ELSE words[i] \o " " \o JoinWords(words, i + 1, j)

\* the words of get_content_fingerprint: lower-case, delete every character
\* that is neither a word character nor whitespace, split on whitespace
FingerprintWords(content) ==
    LET lowered == [i \in DOMAIN content |->
                       IF IsSpace(content[i]) THEN " "
                       ELSE Lower(content[i])]
    IN  WordsFrom(SelectSeq(lowered, LAMBDA t : ~IsPunct(t)), 1)

\* get_content_fingerprint: the set of n-grams of the words; a text of
\* fewer than n_grams words gives the one string of its words joined,
\* which for a text without words is the empty string
get_content_fingerprint(content, n_grams) ==
    LET words == FingerprintWords(content)
    IN  IF Len(words) < n_grams THEN {JoinWords(words, 1, Len(words))}
        ELSE { JoinWords(words, i, i + n_grams - 1) :
                 i \in 1..(Len(words) - n_grams + 1) }

\* calculate_fingerprint_similarity: Jaccard similarity of two fingerprints
calculate_fingerprint_similarity(fp1, fp2) ==
    IF fp1 = {} \/ fp2 = {} THEN R(0)
    ELSE Rat(Cardinality(fp1 \cap fp2), Cardinality(fp1 \cup fp2))

\* ------------------------------------------------------------------------
\* find_duplicates
\* ------------------------------------------------------------------------
\* A similarity score base + 0.4 * dot / sqrt(squares): the value of
\* text_sim * 0.4 + cosine_sim * 0.4 + entity_sim * 0.2 with the cosine's
\* square root kept symbolic; the score 1.0 has no root part
Score(base, cosine) ==
    [base |-> base, dot |-> cosine.dot, squares |-> cosine.squares]

ExactScore == Score(R(1), [dot |-> 0, squares |-> 1])

\* the square of the root part of a score
RootSquared(s) == Rat(4 * s.dot * s.dot, 25 * s.squares)

\* a >= b for two scores, the square roots removed by squaring twice
ScoreGe(a, b) ==
    LET gap == RSub(b.base, a.base)
        u2 == RootSquared(a)
        v2 == RootSquared(b)
        t == RSub(RAdd(u2, v2), RMul(gap, gap))
        product == RMul(R(4), RMul(u2, v2))
    IN  IF RLe(gap, R(0))
        THEN \/ RLe(v2, u2)
             \/ RLe(t, R(0))
             \/ RLe(RMul(t, t), product)
        ELSE /\ RLt(v2, u2)
             /\ RGe(t, R(0))
             /\ RGe(RMul(t, t), product)

\* combined = text_sim * 0.4 + cosine_sim * 0.4 + entity_sim * 0.2
combined_score(insight, other) ==
    Score(RAdd(RMul(calculate_similarity(insight.original_content,
                                         other.original_content),
                    Rat(4, 10)),
               RMul(calculate_entity_overlap(insight, other), Rat(2, 10))),
          calculate_cosine_similarity(insight.original_content,
                                      other.original_content))

\* the optional threshold argument: absent (None) or a float
NoThreshold == [present |-> FALSE, value |-> R(0)]
Threshold(x) == [present |-> TRUE, value |-> x]

\* threshold or self.similarity_threshold: None and 0.0 are both falsy
effective_threshold(detector, threshold) ==
    IF threshold.present /\ threshold.value # R(0) THEN threshold.value
    ELSE detector.similarity_threshold

\* the loop of find_duplicates from member i on: the (transcript_id, score)
\* pairs in corpus order
RECURSIVE DuplicatesFrom(_, _, _, _, _)
DuplicatesFrom(detector, insight, existing_insights, threshold, i) ==
    IF i > Len(existing_insights) THEN <<>>
    ELSE LET other == existing_insights[i]
             rest == DuplicatesFrom(detector, insight, existing_insights,
                                    threshold, i + 1)
             text_sim == calculate_similarity(insight.original_content,
                                              other.original_content)
         IN  IF other.transcript_id = insight.transcript_id THEN rest
             ELSE IF calculate_content_hash(insight.original_content)
                       = calculate_content_hash(other.original_content)
             THEN <<[transcript_id |-> other.transcript_id,
                     score |-> ExactScore]>> \o rest
             ELSE IF RLt(text_sim, detector.min_word_overlap) THEN rest
             ELSE IF ScoreGe(combined_score(insight, other),
                             Score(threshold, [dot |-> 0, squares |-> 1]))
             THEN <<[transcript_id |-> other.transcript_id,
                     score |-> combined_score(insight, other)]>> \o rest
             ELSE rest

\* the loop of find_duplicates without the check of the transcript_id
RECURSIVE DuplicatesWithSelfFrom(_, _, _, _, _)
DuplicatesWithSelfFrom(detector, insight, existing_insights, threshold, i) ==
    IF i > Len(existing_insights) THEN <<>>
    ELSE LET other == existing_insights[i]
             rest == DuplicatesWithSelfFrom(detector, insight,
                                            existing_insights, threshold,
                                            i + 1)
             text_sim == calculate_similarity(insight.original_content,
                                              other.original_content)
         IN  IF calculate_content_hash(insight.original_content)
                  = calculate_content_hash(other.original_content)
             THEN <<[transcript_id |-> other.transcript_id,
                     score |-> ExactScore]>> \o rest
             ELSE IF RLt(text_sim, detector.min_word_overlap) THEN rest
             ELSE IF ScoreGe(combined_score(insight, other),
                             Score(threshold, [dot |-> 0, squares |-> 1]))
             THEN <<[transcript_id |-> other.transcript_id,
                     score |-> combined_score(insight, other)]>> \o rest
             ELSE rest

\* duplicates.sort(key=lambda x: x[1], reverse=True): a stable sort, so
\* pairs of equal score keep their corpus order
RECURSIVE SortDuplicates(_)
SortDuplicates(duplicates) ==
    IF duplicates = <<>> THEN <<>>
    ELSE LET first == CHOOSE i \in DOMAIN duplicates :
                          /\ \A j \in DOMAIN duplicates :
                                 ScoreGe(duplicates[i].score,
                                         duplicates[j].score)
                          /\ \A j \in 1..(i - 1) :
                                 ~ScoreGe(duplicates[j].score,
                                          duplicates[i].score)
         IN  <<duplicates[first]>> \o
             SortDuplicates([k \in 1..(Len(duplicates) - 1) |->
                                IF k < first THEN duplicates[k]
                                ELSE duplicates[k + 1]])

find_duplicates_including_self(detector, insight, existing_insights, threshold) ==
    SortDuplicates(DuplicatesWithSelfFrom(
        detector, insight, existing_insights,
        effective_threshold(detector, threshold), 1))

find_duplicates(detector, insight, existing_insights, threshold) ==
    SortDuplicates(DuplicatesFrom(
        detector, insight, existing_insights,
        effective_threshold(detector, threshold), 1))

\* ------------------------------------------------------------------------
\* Inputs
\* ------------------------------------------------------------------------
\* k words `word`, each preceded by a single space
Padding(word, k) == [i \in 1..(2 * k) |-> IF i % 2 = 1 THEN " " ELSE word]

Phrases ==
    << <<"Um", ",", " ", "yeah", ",", " ", "so", " ", "like", ",", " ",
         "you", " ", "know", ",", " ", "basically", ",", " ", "uh", "...">>,
       <<"We", " ", "must", " ", "assign", " ", "the", " ", "task", ".",
         " ", "Need", " ", "to", " ", "follow", "-", "up", " ", "by", "  ",
         "Friday", ",", " ", "deadline", " ", "due", " ", "today", ".">>,
       <<"exactly", " ", "5", " ", "percent", " ", "in", " ", "version",
         " ", "2", " ", "of", " ", "PROJ", "-", "123", " ", "next", " ",
         "week", " ", "tomorrow", " ", "Urgent">>,
       <<"so", "-", "so">>,
       <<"the", " ", "project", " ", "plan">> \o
           Padding("more", 48) >>

\* the texts made of at most k phrases, taken in the order of Phrases from
\* phrase `from` on and joined by a single space
RECURSIVE PhraseTexts(_, _)
PhraseTexts(from, k) ==
    IF k = 0 \/ from > Len(Phrases) THEN {<<>>}
    ELSE PhraseTexts(from + 1, k) \cup
         { IF rest = <<>> THEN Phrases[from]
                          ELSE Phrases[from] \o <<" ">> \o rest :
             rest \in PhraseTexts(from + 1, k - 1) }

Contents == PhraseTexts(1, MaxPhrases) \cup {<<"  ">>}

EntityRosters ==
    << <<Entity("next Friday", "DATE", Rat(95, 100)),
         Entity("noon", "TIME", Rat(75, 100)),
         Entity("John", "PERSON", Rat(90, 100)),
         Entity("Acme", "ORG", Rat(80, 100)),
         Entity("Apollo", "PROJECT", Rat(1, 1))>>,
       <<Entity("Acme", "ORG", Rat(80, 100)),
         Entity("acme", "ORG", Rat(70, 100)),
         Entity("Apollo", "PROJECT", Rat(1, 1)),
         Entity("Zeus", "PROJECT", Rat(50, 100)),
         Entity("Ann", "PERSON", Rat(90, 100))>> >>

EntityLists ==
    { SubSeq(EntityRosters[r], 1, k) :
        r \in DOMAIN EntityRosters, k \in 0..MaxEntities }

ClassificationRosters ==
    << <<Classification("Action Item", Rat(85, 100)),
         Classification("Meeting", Rat(72, 100)),
         Classification("Decision", Rat(65, 100))>>,
       <<Classification("Discussion", Rat(40, 100)),
         Classification("Idea", Rat(90, 100)),
         Classification("Insight", Rat(30, 100))>> >>

ClassificationLists ==
    { SubSeq(ClassificationRosters[r], 1, k) :
        r \in DOMAIN ClassificationRosters, k \in 0..MaxClassifications }

PrimaryCategories == {None, "Action Item", "Discussion", "Idea"}

ActionItemLists == { [i \in 1..k |-> "item"] : k \in 0..MaxActionItems }

Sentiments ==
    {NoSentiment, SentimentResult("low", None),
     SentimentResult("high", "confident")}

Summaries == {NoSummary, Summary(""), Summary("Title")}

SubScoreGrid == { Rat(10 * k, MaxSubScoreSteps) : k \in 0..MaxSubScoreSteps }


\* ------------------------------------------------------------------------
\* State
\* ------------------------------------------------------------------------
VARIABLES
    insight,    \* the ProcessedInsight being processed
    qf,         \* the thresholds of the QualityFilter
    existing,   \* the other insights (comparison set, list to deduplicate)
    detector,   \* the thresholds of the DuplicateDetector
    now,        \* the clock read by datetime.now()
    result,     \* the last operation and what it returned
    processor,  \* the SemanticProcessor: its cache and its switch
    client      \* the OMIClient: the request in progress

vars == <<insight, qf, existing, detector, now, result, processor, client>>

\* SemanticProcessor.__init__: an empty cache, caching enabled; `runs`
\* counts the runs of the analyzers and numbers the objects they build
NewSemanticProcessor ==
    [cache |-> [key \in {} |-> None], cache_enabled |-> TRUE, runs |-> 0]

\* OMIClient.__init__: no request made yet
NewOMIClient ==
    [phase |-> "idle", method |-> None, endpoint |-> None, attempt |-> 0,
     requests |-> 0, cause |-> None, status |-> 0, raised |-> None]

NoResult == [op |-> "none", value |-> None]

\* QualityFilter.__init__
QualityFilter(min_relevance, min_confidence, min_length, max_noise) ==
    [min_relevance_score |-> min_relevance,
     min_confidence |-> min_confidence,
     min_content_length |-> min_length,
     max_noise_ratio |-> max_noise]

DefaultQualityFilter == QualityFilter(R(5), Rat(65, 100), 20, Rat(7, 10))

\* ------------------------------------------------------------------------
\* SpecTotal: QualityScore.total_score over a grid of sub-scores
\* ------------------------------------------------------------------------
InitTotal ==
    /\ \E i \in SubScoreGrid, a \in SubScoreGrid, n \in SubScoreGrid,
          c \in SubScoreGrid, s \in SubScoreGrid, t \in SubScoreGrid :
          insight = [ProcessedInsight("t1", <<"so">>, <<>>, None, <<>>,
                                      <<>>, NoSentiment, None, NoSummary,
                                      <<>>)
                       EXCEPT !.quality_score = QualityScore(i, a, n, c, s, t)]
    /\ qf = DefaultQualityFilter
    /\ existing = <<>>
    /\ detector = DefaultDuplicateDetector
    /\ now = 0
    /\ result = NoResult
    /\ processor = NewSemanticProcessor
    /\ client = NewOMIClient

ReadTotalScore ==
    /\ result.op = "none"
    /\ result' = [op |-> "total_score",
                  value |-> total_score(insight.quality_score)]
    /\ UNCHANGED <<insight, qf, existing, detector, now, processor, client>>

NextTotal == ReadTotalScore

SpecTotal == InitTotal /\ [][NextTotal]_vars

\* ------------------------------------------------------------------------
\* SpecScore: QualityFilter.calculate_quality_score over the inputs
\* ------------------------------------------------------------------------
InitScore ==
    /\ \E content \in Contents, cls \in ClassificationLists,
          primary \in PrimaryCategories, ents \in EntityLists,
          items \in ActionItemLists,
          sent \in {NoSentiment, SentimentResult("high", "confident")},
          summ \in {NoSummary, Summary("Title")} :
          insight = ProcessedInsight("t1", content, cls, primary, ents,
                                     items, sent, None, summ, <<>>)
    /\ qf = DefaultQualityFilter
    /\ existing = <<>>
    /\ detector = DefaultDuplicateDetector
    /\ now = 0
    /\ result = NoResult
    /\ processor = NewSemanticProcessor
    /\ client = NewOMIClient

CalculateQualityScore ==
    /\ result.op = "none"
    /\ result' = [op |-> "calculate_quality_score",
                  value |-> calculate_quality_score(insight)]
    /\ UNCHANGED <<insight, qf, existing, detector, now, processor, client>>

NextScore == CalculateQualityScore

SpecScore == InitScore /\ [][NextScore]_vars


\* ------------------------------------------------------------------------
\* SpecFilter: the gates of the QualityFilter over insights and thresholds
\* ------------------------------------------------------------------------
FilterScoreValues == SubScoreGrid \cup {R(5)}

QualityFilters ==
    { QualityFilter(r, c, l, n) :
        r \in {R(3), R(5), R(7)}, c \in {Rat(65, 100), Rat(90, 100)},
        l \in {20, 5}, n \in {Rat(7, 10), R(1)} }

InitFilter ==
    /\ \E content \in Contents, cls \in ClassificationLists,
          summ \in Summaries, x \in FilterScoreValues :
          insight = [ProcessedInsight("t1", content, cls,
                                      IF cls = <<>> THEN None
                                      ELSE cls[1].category,
                                      <<>>, <<>>, NoSentiment, None, summ,
                                      <<>>)
                       EXCEPT !.quality_score = QualityScore(x, x, x, x, x, x)]
    /\ qf \in QualityFilters
    /\ existing = <<>>
    /\ detector = DefaultDuplicateDetector
    /\ now = 0
    /\ result = NoResult
    /\ processor = NewSemanticProcessor
    /\ client = NewOMIClient

CheckCompleteness ==
    /\ result' = [op |-> "check_completeness",
                  value |-> check_completeness(qf, insight)]
    /\ UNCHANGED <<insight, qf, existing, detector, now, processor, client>>

CalculateNoiseRatio ==
    /\ result' = [op |-> "calculate_noise_ratio",
                  value |-> calculate_noise_ratio(insight.original_content)]
    /\ UNCHANGED <<insight, qf, existing, detector, now, processor, client>>

ShouldSync ==
    /\ result' = [op |-> "should_sync", value |-> should_sync(qf, insight)]
    /\ UNCHANGED <<insight, qf, existing, detector, now, processor, client>>

NextFilter == CheckCompleteness \/ CalculateNoiseRatio \/ ShouldSync

SpecFilter == InitFilter /\ [][NextFilter]_vars

\* ------------------------------------------------------------------------
\* SpecDedup: the DuplicateDetector over lists of insights and thresholds
\* ------------------------------------------------------------------------
PlanContent == <<"the", " ", "project", " ", "plan", " ", "more">>

DedupPool ==
    << ProcessedInsight("t1", PlanContent, <<>>, None,
                        SubSeq(EntityRosters[1], 1, 2), <<>>, NoSentiment,
                        None, NoSummary, <<>>),
       ProcessedInsight("t2", PlanContent \o <<" ", "more", ".">>, <<>>,
                        None, SubSeq(EntityRosters[1], 1, 2), <<>>,
                        NoSentiment, None, Summary("Title"), <<>>),
       ProcessedInsight("t3",
                        <<"The", "  ", "project", " ", "plan", ",", " ",
                          "more", "!">>,
                        <<>>, None, SubSeq(EntityRosters[2], 1, 2), <<>>,
                        NoSentiment, None, Summary("Title"), <<>>),
       ProcessedInsight("t4",
                        <<"more", " ", "plan", " ", "project", " ", "the">>,
                        <<>>, None, SubSeq(EntityRosters[2], 1, 2), <<>>,
                        NoSentiment, None, NoSummary, <<>>),
       ProcessedInsight("t5", <<"project", " ", "plan">>, <<>>, None,
                        SubSeq(EntityRosters[1], 1, 2), <<>>, NoSentiment,
                        None, NoSummary, <<>>),
       ProcessedInsight("t1", <<"  ">>, <<>>, None, <<>>, <<>>, NoSentiment,
                        None, NoSummary, <<>>) >>

\* the lists of at most MaxInsights insights of the pool
RECURSIVE InsightLists(_)
InsightLists(n) ==
    IF n = 0 THEN {<<>>}
    ELSE LET shorter == InsightLists(n - 1)
         IN  shorter \cup { Append(l, DedupPool[p]) :
                              l \in shorter, p \in DOMAIN DedupPool }

DuplicateDetectors ==
    { DefaultDuplicateDetector,
      DuplicateDetector(Rat(5, 10), Rat(6, 10)),
      DuplicateDetector(Rat(9, 10), Rat(3, 10)) }

InitDedup ==
    /\ insight = DedupPool[1]
    /\ qf = DefaultQualityFilter
    /\ existing \in InsightLists(MaxInsights)
    /\ detector \in DuplicateDetectors
    /\ now = 0
    /\ result = NoResult
    /\ processor = NewSemanticProcessor
    /\ client = NewOMIClient

\* is_duplicate on two insights of the list, the earlier one first (the
\* lists hold every pair in both orders, and an insight twice)
IsDuplicate ==
    \E i \in DOMAIN existing, j \in DOMAIN existing :
        /\ i < j
        /\ result' = [op |-> "is_duplicate",
                      insight1 |-> existing[i], insight2 |-> existing[j],
                      value |-> is_duplicate(detector, existing[i],
                                             existing[j])]
        /\ UNCHANGED <<insight, qf, existing, detector, now, processor, client>>

DeduplicateList ==
    /\ result' = [op |-> "deduplicate_list", input |-> existing, pass |-> 1,
                  kept |-> deduplicate_positions(detector, existing),
                  value |-> deduplicate_list(detector, existing)]
    /\ UNCHANGED <<insight, qf, existing, detector, now, processor, client>>

\* deduplicate_list applied to the list the previous call returned
DeduplicateAgain ==
    /\ result.op = "deduplicate_list"
    /\ result.pass = 1
    /\ result' = [op |-> "deduplicate_list", input |-> result.value,
                  pass |-> 2,
                  kept |-> deduplicate_positions(detector, result.value),
                  value |-> deduplicate_list(detector, result.value)]
    /\ UNCHANGED <<insight, qf, existing, detector, now, processor, client>>

NextDedup == IsDuplicate \/ DeduplicateList \/ DeduplicateAgain

SpecDedup == InitDedup /\ [][NextDedup]_vars

\* ------------------------------------------------------------------------
\* SpecFind: find_duplicates of a pool insight against lists of the pool
\* ------------------------------------------------------------------------
\* the threshold arguments of find_duplicates: none, 0.0 and 0.5
Thresholds == {NoThreshold, Threshold(R(0)), Threshold(Rat(1, 2))}

\* the insights looked up: one with a hash-equal partner among the
\* candidates, and one with the same words in another order
FindInsights == {DedupPool[1], DedupPool[4]}

\* the candidates: the first, a longer text, a hash-equal text and a
\* shorter text
FindPool == <<DedupPool[1], DedupPool[2], DedupPool[3], DedupPool[5]>>

\* the lists of at most n candidates
RECURSIVE FindLists(_)
FindLists(n) ==
    IF n = 0 THEN {<<>>}
    ELSE LET shorter == FindLists(n - 1)
         IN  shorter \cup { Append(l, FindPool[p]) :
                              l \in shorter, p \in DOMAIN FindPool }

InitFind ==
    /\ insight \in FindInsights
    /\ qf = DefaultQualityFilter
    /\ existing \in FindLists(MaxInsights)
    /\ detector \in DuplicateDetectors
    /\ now = 0
    /\ result = NoResult
    /\ processor = NewSemanticProcessor
    /\ client = NewOMIClient

\* find_duplicates of the insight against the list
FindDuplicates ==
    \E threshold \in Thresholds :
        /\ result' = [op |-> "find_duplicates", threshold |-> threshold,
                      value |-> find_duplicates(detector, insight, existing,
                                                threshold)]
        /\ UNCHANGED <<insight, qf, existing, detector, now, processor, client>>

NextFind == FindDuplicates

SpecFind == InitFind /\ [][NextFind]_vars

\* ------------------------------------------------------------------------
\* SpecText: the hash and the similarity functions over pairs of texts
\* ------------------------------------------------------------------------
TextContents ==
    { <<>>, <<"  ">>, <<"...">>,
      <<"Test", "  ", "Message", ".">>,
      <<"test", " ", "message">>,
      <<"Test", " ", ".", " ", "Message">>,
      <<"so", "-", "so">>,
      <<"plan", " ", "project">>,
      <<"more">>,
      PlanContent,
      PlanContent \o <<" ", "more", ".">>,
      <<"more", " ", "plan", " ", "project", " ", "the">>,
      <<"The", "  ", "project", " ", "plan", ",", " ", "more", "!">> }

TextEntityLists ==
    { SubSeq(EntityRosters[r], 1, k) :
        r \in DOMAIN EntityRosters, k \in 0..(MaxEntities - 3) }

TextInsights(id) ==
    { ProcessedInsight(id, c, <<>>, None, e, <<>>, NoSentiment, None,
                       NoSummary, <<>>) :
        c \in TextContents, e \in TextEntityLists }

InitText ==
    /\ insight \in TextInsights("t1")
    /\ qf = DefaultQualityFilter
    /\ existing \in { <<other>> : other \in TextInsights("t2") }
    /\ detector = DefaultDuplicateDetector
    /\ now = 0
    /\ result = NoResult
    /\ processor = NewSemanticProcessor
    /\ client = NewOMIClient

\* calculate_content_hash on each of the two texts
CalculateContentHash ==
    /\ result' = [op |-> "calculate_content_hash",
                  value |-> calculate_content_hash(insight.original_content),
                  other |-> calculate_content_hash(
                                existing[1].original_content)]
    /\ UNCHANGED <<insight, qf, existing, detector, now, processor, client>>

CalculateSimilarity ==
    /\ result' = [op |-> "calculate_similarity",
                  value |-> calculate_similarity(
                                insight.original_content,
                                existing[1].original_content)]
    /\ UNCHANGED <<insight, qf, existing, detector, now, processor, client>>

CalculateCosineSimilarity ==
    /\ result' = [op |-> "calculate_cosine_similarity",
                  value |-> calculate_cosine_similarity(
                                insight.original_content,
                                existing[1].original_content)]
    /\ UNCHANGED <<insight, qf, existing, detector, now, processor, client>>

\* is_duplicate on the two insights
IsDuplicateOfOther ==
    /\ result' = [op |-> "is_duplicate",
                  value |-> is_duplicate(detector, insight, existing[1])]
    /\ UNCHANGED <<insight, qf, existing, detector, now, processor, client>>

CalculateEntityOverlap ==
    /\ result' = [op |-> "calculate_entity_overlap",
                  value |-> calculate_entity_overlap(insight, existing[1])]
    /\ UNCHANGED <<insight, qf, existing, detector, now, processor, client>>

\* calculate_fingerprint_similarity on the fingerprints of the two texts,
\* with the default n-gram size
CalculateFingerprintSimilarity ==
    /\ result' = [op |-> "calculate_fingerprint_similarity",
                  value |-> calculate_fingerprint_similarity(
                                get_content_fingerprint(
                                    insight.original_content, 3),
                                get_content_fingerprint(
                                    existing[1].original_content, 3))]
    /\ UNCHANGED <<insight, qf, existing, detector, now, processor, client>>

NextText ==
    \/ CalculateContentHash
    \/ CalculateSimilarity
    \/ CalculateCosineSimilarity
    \/ CalculateEntityOverlap
    \/ CalculateFingerprintSimilarity
    \/ IsDuplicateOfOther

SpecText == InitText /\ [][NextText]_vars

\* ------------------------------------------------------------------------
\* Spec: one insight assessed by the QualityFilter, enriched by the
\* EnrichmentModule and given quality scores directly, in any order
\* ------------------------------------------------------------------------
\* the analyzers' outputs that come with a content: classifications (the
\* first being the primary category), entities, action items, sentiment,
\* intent, summary, and the tags set beforehand
Profiles ==
    { [cls |-> SubSeq(ClassificationRosters[1], 1, MaxClassifications),
       ents |-> SubSeq(EntityRosters[1], 1, MaxEntities),
       items |-> [i \in 1..MaxActionItems |-> "item"],
       sent |-> SentimentResult("high", "confident"),
       intent |-> "Actionable",
       summ |-> Summary("Title"),
       tags |-> tags] : tags \in {<<>>, <<"apollo", "acme", "preset">>} }
    \cup
    { [cls |-> SubSeq(ClassificationRosters[2], 1, 1),
       ents |-> SubSeq(EntityRosters[2], 1, MaxEntities),
       items |-> <<>>,
       sent |-> SentimentResult("low", None),
       intent |-> None,
       summ |-> Summary(""),
       tags |-> <<>>],
      [cls |-> <<>>, ents |-> <<>>, items |-> <<>>, sent |-> NoSentiment,
       intent |-> None, summ |-> NoSummary, tags |-> <<>>] }

MainContents ==
    { Phrases[1], Phrases[2], Phrases[3], <<"  ">>,
      <<"overdue", " ", "keyboard", " ", "plan">> }

Insights ==
    { ProcessedInsight("t1", content,
                       p.cls,
                       IF p.cls = <<>> THEN None ELSE p.cls[1].category,
                       p.ents, p.items, p.sent, p.intent, p.summ, p.tags) :
        content \in MainContents, p \in Profiles }

\* the insights already processed, with their tags
Corpus ==
    << [ProcessedInsight("t2", Phrases[2], <<>>, "Action Item",
                         SubSeq(EntityRosters[1], 3, 5), <<>>, NoSentiment,
                         None, NoSummary, <<"apollo", "acme", "john">>)
           EXCEPT !.priority = "High"],
       ProcessedInsight("t1", Phrases[3], <<>>, "Action Item",
                        SubSeq(EntityRosters[1], 1, 5), <<>>, NoSentiment,
                        None, NoSummary, <<"apollo", "acme">>),
       ProcessedInsight("t3", Phrases[1], <<>>, "Discussion", <<>>, <<>>,
                        NoSentiment, None, NoSummary, <<>>),
       ProcessedInsight("t4", Phrases[4], <<>>, None,
                        SubSeq(EntityRosters[2], 1, 3), <<>>, NoSentiment,
                        None, NoSummary, <<"acme", "zeus">>),
       ProcessedInsight("t5", Phrases[4], <<>>, "Idea",
                        SubSeq(EntityRosters[2], 3, 5), <<>>, NoSentiment,
                        None, NoSummary, <<"preset">>) >>

ExistingLists == { SubSeq(Corpus, 1, k) : k \in 0..MaxInsights }

ReplacementScores ==
    { QualityScore(R(4), R(4), R(4), R(4), R(4), R(4)),
      QualityScore(R(10), R(8), R(0), Rat(5, 2), R(6), R(1)) }

Init ==
    /\ insight \in Insights
    /\ qf \in { QualityFilter(r, Rat(65, 100), 20, Rat(7, 10)) :
                  r \in {R(3), R(5), R(7)} }
    /\ existing \in ExistingLists
    /\ detector = DefaultDuplicateDetector
    /\ now = 1
    /\ result = NoResult
    /\ processor = NewSemanticProcessor
    /\ client = NewOMIClient

\* assess also stamping the insight with the time of the assessment
AssessStampingProcessedAt(update_scores) ==
    /\ result' = [op |-> "assess", update_scores |-> update_scores,
                  value |-> assess_report(qf, insight)]
    /\ insight' = IF update_scores
                  THEN [insight EXCEPT
                           !.quality_score = calculate_quality_score(insight),
                           !.processed_at = now]
                  ELSE insight
    /\ UNCHANGED <<qf, existing, detector, now, processor, client>>

\* QualityFilter.assess(insight, update_scores)
Assess(update_scores) ==
    /\ result' = [op |-> "assess", update_scores |-> update_scores,
                  value |-> assess_report(qf, insight)]
    /\ insight' = IF update_scores
                  THEN [insight EXCEPT
                           !.quality_score = calculate_quality_score(insight)]
                  ELSE insight
    /\ UNCHANGED <<qf, existing, detector, now, processor, client>>

\* insight.quality_score = q, by any holder of the insight
SetQualityScore(q) ==
    /\ insight' = [insight EXCEPT !.quality_score = q]
    /\ result' = [op |-> "set_quality_score", value |-> None]
    /\ UNCHANGED <<qf, existing, detector, now, processor, client>>

\* EnrichmentModule.enrich(insight, existing_insights); without a comparison
\* set existing_insights is None
Enrich(with_existing) ==
    /\ now <= MaxClock
    /\ insight' \in enrich(insight, IF with_existing THEN existing ELSE <<>>,
                           now)
    /\ result' = [op |-> "enrich", with_existing |-> with_existing,
                  value |-> insight'.transcript_id]
    /\ now' = now + 1
    /\ UNCHANGED <<qf, existing, detector, processor, client>>

Next ==
    \/ \E update_scores \in BOOLEAN : Assess(update_scores)
    \/ \E q \in ReplacementScores : SetQualityScore(q)
    \/ \E with_existing \in BOOLEAN : Enrich(with_existing)

Spec == Init /\ [][Next]_vars

\* ------------------------------------------------------------------------
\* SpecAssess: the operations of the QualityFilter on one insight that
\* already carries a quality score, under every set of thresholds
\* ------------------------------------------------------------------------
InitAssess ==
    /\ \E scored \in Insights, x \in SubScoreGrid :
           insight = [scored EXCEPT
                         !.quality_score = QualityScore(x, x, x, x, x, x)]
    /\ qf \in QualityFilters
    /\ existing = <<>>
    /\ detector = DefaultDuplicateDetector
    /\ now = 1
    /\ result = NoResult
    /\ processor = NewSemanticProcessor
    /\ client = NewOMIClient

NextAssess ==
    \/ \E update_scores \in BOOLEAN : Assess(update_scores)
    \/ CalculateQualityScore
    \/ CheckCompleteness
    \/ CalculateNoiseRatio
    \/ ShouldSync

SpecAssess == InitAssess /\ [][NextAssess]_vars

\* ------------------------------------------------------------------------
\* SpecEnrich: the operations of the EnrichmentModule that return a value,
\* over insights of every urgency and keyword tier
\* ------------------------------------------------------------------------
\* a content with more candidate tags than max_tags once the tags of the
\* categories, entities, intent and sentiment are added
ManyWordsContent == Phrases[3] \o <<" ", "roadmap", " ", "budget">>

EnrichContents ==
    { ManyWordsContent,
      <<"overdue", " ", "keyboard", " ", "plan">>,
      <<"plan", " ", "maybe">>,
      <<"maybe", " ", "later">>,
      <<"quiet", " ", "day">>,
      <<"Urgent", " ", "deadline", " ", "maybe">>,
      <<"  ">> }

\* entities whose texts normalize to a stop word, to a single character
\* and to the empty tag
OddEntities ==
    <<Entity("The", "TOPIC", Rat(1, 1)),
      Entity("Q", "PERSON", Rat(90, 100)),
      Entity("!!", "ORG", Rat(90, 100)),
      Entity("Acme", "ORG", Rat(80, 100)),
      Entity("next Friday", "DATE", Rat(95, 100))>>

EnrichProfiles ==
    { [cls |-> SubSeq(ClassificationRosters[1], 1, MaxClassifications),
       ents |-> SubSeq(EntityRosters[1], 1, MaxEntities),
       items |-> [i \in 1..MaxActionItems |-> "item"],
       sent |-> SentimentResult(urgency, "confident"),
       intent |-> "Actionable",
       tags |-> tags] :
        urgency \in UrgencyLevel,
        tags \in {<<>>, <<"apollo", "acme", "preset">>} }
    \cup
    { [cls |-> SubSeq(ClassificationRosters[2], 1, 1),
       ents |-> SubSeq(OddEntities, 1, MaxEntities),
       items |-> <<>>,
       sent |-> SentimentResult(urgency, "Very Calm"),
       intent |-> None,
       tags |-> <<"acme">>] : urgency \in UrgencyLevel }
    \cup
    { [cls |-> <<>>, ents |-> <<>>, items |-> <<>>, sent |-> sent,
       intent |-> None, tags |-> <<>>] :
        sent \in {NoSentiment} \cup
                 {SentimentResult(urgency, None) : urgency \in UrgencyLevel} }

EnrichInsights ==
    { ProcessedInsight("t1", content,
                       p.cls,
                       IF p.cls = <<>> THEN None ELSE p.cls[1].category,
                       p.ents, p.items, p.sent, p.intent, NoSummary,
                       p.tags) :
        content \in EnrichContents, p \in EnrichProfiles }

\* the similarity_threshold arguments of map_relationships
RelationshipThresholds == {map_relationships_threshold, R(0), Rat(1, 2)}

InitEnrich ==
    /\ insight \in EnrichInsights
    /\ qf = DefaultQualityFilter
    /\ existing \in ExistingLists
    /\ detector = DefaultDuplicateDetector
    /\ now = 0
    /\ result = NoResult
    /\ processor = NewSemanticProcessor
    /\ client = NewOMIClient

GenerateTags ==
    /\ result' = [op |-> "generate_tags", value |-> generate_tags(insight)]
    /\ UNCHANGED <<insight, qf, existing, detector, now, processor, client>>

AssignPriority ==
    /\ result' = [op |-> "assign_priority",
                  value |-> assign_priority(insight)]
    /\ UNCHANGED <<insight, qf, existing, detector, now, processor, client>>

MapRelationships ==
    \E similarity_threshold \in RelationshipThresholds :
        /\ result' = [op |-> "map_relationships",
                      similarity_threshold |-> similarity_threshold,
                      value |-> map_relationships(insight, existing,
                                                  similarity_threshold)]
        /\ UNCHANGED <<insight, qf, existing, detector, now, processor, client>>

NextEnrich == GenerateTags \/ AssignPriority \/ MapRelationships

SpecEnrich == InitEnrich /\ [][NextEnrich]_vars

\* ------------------------------------------------------------------------
\* SemanticProcessor (src/src/semantic_processor.py): process and its cache
\* ------------------------------------------------------------------------
MaxRuns == 3

Transcript(id, content) == [transcript_id |-> id, content |-> content]

\* what the five analyzers return for a content; they are external models,
\* so any of these can come back, and a failing analyzer yields the empty
\* list or None
Analyses ==
    { [classifications |-> cls, entities |-> ents, sentiment |-> sent] :
        cls \in {<<>>, SubSeq(ClassificationRosters[1], 1, 1)},
        ents \in {<<>>},
        sent \in {NoSentiment, SentimentResult("high", None)} }

\* _get_primary_category
_get_primary_category(classifications) ==
    IF classifications # <<>> THEN classifications[1].category ELSE None

\* the ProcessedInsight that process builds, as a new object: `object`
\* tells apart two insights built by different runs. The fields derived
\* from the analysis alone (tags, participants, initial quality score) are
\* not carried
BuildInsight(object, transcript, analysis, clock) ==
    [object |-> object,
     transcript_id |-> transcript.transcript_id,
     original_content |-> transcript.content,
     classifications |-> analysis.classifications,
     primary_category |-> _get_primary_category(analysis.classifications),
     entities |-> analysis.entities,
     sentiment |-> analysis.sentiment,
     processed_at |-> clock]

\* self._cache[cache_key] = insight
CacheWith(cache, key, built) ==
    [k \in DOMAIN cache \cup {key} |-> IF k = key THEN built ELSE cache[k]]

\* the run of the analyzers in process: the possible outcomes, a returned
\* insight (stored when caching is enabled) or a RuntimeError
RunAnalyzers(proc, transcript, clock) ==
    { [processor |-> [proc EXCEPT
                         !.runs = @ + 1,
                         !.cache = IF proc.cache_enabled
                                   THEN CacheWith(
                                            @, transcript.transcript_id,
                                            BuildInsight(proc.runs + 1,
                                                         transcript, analysis,
                                                         clock))
                                   ELSE @],
       outcome |-> "processed",
       value |-> BuildInsight(proc.runs + 1, transcript, analysis, clock)] :
        analysis \in Analyses }
    \cup
    { [processor |-> [proc EXCEPT !.runs = @ + 1],
       outcome |-> "RuntimeError",
       value |-> BuildInsight(0, transcript,
                              CHOOSE analysis \in Analyses :
                                  /\ analysis.classifications = <<>>
                                  /\ ~analysis.sentiment.present,
                              0)] }

\* the run of the analyzers storing its result only when use_cache is set
RunAnalyzersStoringOnUse(proc, transcript, use_cache, clock) ==
    { [processor |-> [proc EXCEPT
                         !.runs = @ + 1,
                         !.cache = IF proc.cache_enabled /\ use_cache
                                   THEN CacheWith(
                                            @, transcript.transcript_id,
                                            BuildInsight(proc.runs + 1,
                                                         transcript, analysis,
                                                         clock))
                                   ELSE @],
       outcome |-> "processed",
       value |-> BuildInsight(proc.runs + 1, transcript, analysis, clock)] :
        analysis \in Analyses }

process_storing_on_use(proc, transcript, use_cache, clock) ==
    IF /\ use_cache
       /\ proc.cache_enabled
       /\ transcript.transcript_id \in DOMAIN proc.cache
    THEN { [processor |-> proc, outcome |-> "cached",
            value |-> proc.cache[transcript.transcript_id]] }
    ELSE RunAnalyzersStoringOnUse(proc, transcript, use_cache, clock)

\* process(transcript, use_cache): the cached object, or a run of the
\* analyzers
process(proc, transcript, use_cache, clock) ==
    IF /\ use_cache
       /\ proc.cache_enabled
       /\ transcript.transcript_id \in DOMAIN proc.cache
    THEN { [processor |-> proc, outcome |-> "cached",
            value |-> proc.cache[transcript.transcript_id]] }
    ELSE RunAnalyzers(proc, transcript, clock)

\* ------------------------------------------------------------------------
\* SpecCache: calls of process, process_text, clear_cache and
\* set_cache_enabled on one SemanticProcessor, in any order
\* ------------------------------------------------------------------------
Transcripts ==
    { Transcript(id, content) :
        id \in {"t1", "t2"}, content \in {Phrases[4], PlanContent} }

InitCache ==
    /\ insight = DedupPool[1]
    /\ qf = DefaultQualityFilter
    /\ existing = <<>>
    /\ detector = DefaultDuplicateDetector
    /\ now = 1
    /\ result = NoResult
    /\ processor = NewSemanticProcessor
    /\ client = NewOMIClient

\* process(transcript, use_cache); the analyzers run at most MaxRuns times
Process ==
    \E transcript \in Transcripts, use_cache \in BOOLEAN :
        \E done \in process(processor, transcript, use_cache, now) :
            /\ done.outcome # "cached" => processor.runs < MaxRuns
            /\ processor' = done.processor
            /\ result' = [op |-> "process",
                          transcript_id |-> transcript.transcript_id,
                          use_cache |-> use_cache,
                          outcome |-> done.outcome,
                          value |-> done.value]
            /\ now' = IF done.outcome = "cached" THEN now ELSE now + 1
            /\ UNCHANGED <<insight, qf, existing, detector, client>>

\* process_text(text, transcript_id): process without reading the cache
ProcessText ==
    \E transcript \in Transcripts :
        \E done \in process(processor, transcript, FALSE, now) :
            /\ processor.runs < MaxRuns
            /\ processor' = done.processor
            /\ result' = [op |-> "process",
                          transcript_id |-> transcript.transcript_id,
                          use_cache |-> FALSE,
                          outcome |-> done.outcome,
                          value |-> done.value]
            /\ now' = now + 1
            /\ UNCHANGED <<insight, qf, existing, detector, client>>

ClearCache ==
    /\ processor' = [processor EXCEPT !.cache = [key \in {} |-> None]]
    /\ result' = [op |-> "clear_cache", value |-> None]
    /\ UNCHANGED <<insight, qf, existing, detector, now, client>>

SetCacheEnabled ==
    \E enabled \in BOOLEAN :
        /\ processor' = [processor EXCEPT !.cache_enabled = enabled]
        /\ result' = [op |-> "set_cache_enabled", value |-> None]
        /\ UNCHANGED <<insight, qf, existing, detector, now, client>>

NextCache == Process \/ ProcessText \/ ClearCache \/ SetCacheEnabled

SpecCache == InitCache /\ [][NextCache]_vars

\* ------------------------------------------------------------------------
\* OMIClient (src/src/omi_client.py): _make_request under its retry
\* decorator
\* ------------------------------------------------------------------------
MaxRequests == 3

\* what self._client.request can do: raise a timeout, raise a network
\* error, or return a response with a status code
TransportOutcomes ==
    { [kind |-> "TimeoutException", status |-> 0],
      [kind |-> "NetworkError", status |-> 0] }
    \cup { [kind |-> "response", status |-> code] :
             code \in {200, 204, 400, 404, 429, 500, 503} }

\* the classes an exception is an instance of (src/src/utils/exceptions.py
\* for the project's own)
ExceptionBases(type) ==
    CASE type = "OMIAPIError" -> {"OMIAPIError", "OMINotionError", "Exception"}
      [] type = "RateLimitError" ->
            {"RateLimitError", "RetryableError", "OMINotionError", "Exception"}
      [] type = "TimeoutException" ->
            {"TimeoutException", "TransportError", "Exception"}
      [] type = "NetworkError" ->
            {"NetworkError", "TransportError", "Exception"}
      [] OTHER -> {}

\* the body of _make_request for one outcome of the transport: the
\* exception it raises, or None when it returns the response
_make_request_body(outcome) ==
    IF outcome.kind = "TimeoutException" THEN "OMIAPIError"
    ELSE IF outcome.kind = "NetworkError" THEN "OMIAPIError"
    ELSE IF outcome.status = 429 THEN "RateLimitError"
    ELSE IF outcome.status >= 400 THEN "OMIAPIError"
    ELSE None

\* retry=retry_if_exception_type((httpx.TimeoutException, httpx.NetworkError))
retry_if_exception_type(raised) ==
    ExceptionBases(raised) \cap {"TimeoutException", "NetworkError"} # {}

\* stop=stop_after_attempt(3)
stop_after_attempt == 3

\* ------------------------------------------------------------------------
\* SpecClient: requests made one after the other through _make_request
\* ------------------------------------------------------------------------
Methods == {"GET", "POST"}

Endpoints == {"/transcripts", "/transcripts/t1", "/transcripts/t2"}

InitClient ==
    /\ insight = DedupPool[1]
    /\ qf = DefaultQualityFilter
    /\ existing = <<>>
    /\ detector = DefaultDuplicateDetector
    /\ now = 1
    /\ result = NoResult
    /\ processor = NewSemanticProcessor
    /\ client = NewOMIClient

\* a caller enters _make_request(method, endpoint)
MakeRequest ==
    \E method \in Methods, endpoint \in Endpoints :
        /\ client.phase # "calling"
        /\ client.requests < MaxRequests
        /\ client' = [client EXCEPT
                         !.phase = "calling", !.method = method,
                         !.endpoint = endpoint, !.attempt = 0,
                         !.requests = @ + 1, !.cause = None, !.status = 0,
                         !.raised = None]
        /\ UNCHANGED <<insight, qf, existing, detector, now, result, processor>>

\* one attempt: the body runs once; the decorator then returns the
\* response, tries again, or re-raises the exception of the body
Attempt ==
    \E outcome \in TransportOutcomes :
        LET raised == _make_request_body(outcome)
            attempt == client.attempt + 1
        IN  /\ client.phase = "calling"
            /\ client' =
                   [client EXCEPT
                       !.attempt = attempt,
                       !.cause = outcome.kind,
                       !.status = outcome.status,
                       !.raised = raised,
                       !.phase =
                           IF raised = None THEN "returned"
                           ELSE IF /\ retry_if_exception_type(raised)
                                   /\ attempt < stop_after_attempt
                                THEN "calling"
                                ELSE "raised"]
            /\ UNCHANGED <<insight, qf, existing, detector, now, result,
                           processor>>

NextClient == MakeRequest \/ Attempt

SpecClient == InitClient /\ [][NextClient]_vars

\* ------------------------------------------------------------------------
\* Properties
\* ------------------------------------------------------------------------
InRange(x) == RLe(R(0), x) /\ RLe(x, R(10))

\* C1: whenever the six sub-scores lie in [0,10], total_score is the
\* weighted sum 0.25*information_density + 0.20*actionability +
\* 0.20*novelty + 0.15*clarity + 0.10*specificity + 0.10*temporal_relevance
\* and lies in [0,10].
C1_TotalScoreWeightedSum ==
    result.op = "total_score" =>
        LET q == insight.quality_score
        IN  /\ RMul(R(100), result.value) =
                 RSum(<< RMul(R(25), q.information_density),
                         RMul(R(20), q.actionability),
                         RMul(R(20), q.novelty),
                         RMul(R(15), q.clarity),
                         RMul(R(10), q.specificity),
                         RMul(R(10), q.temporal_relevance) >>)
            /\ InRange(result.value)

C1_Witness ==
    /\ result.op = "total_score"
    /\ insight.quality_score.information_density = R(10)
    /\ insight.quality_score.actionability = R(0)
    /\ insight.quality_score.clarity = Rat(10, 3)
    /\ RGt(result.value, R(3))

\* C8: for content with at least one word, each of the six sub-scores
\* returned by calculate_quality_score lies in [0,10].
C8_SubScoresInRange ==
    (result.op = "calculate_quality_score"
        /\ WordCount(insight.original_content) >= 1) =>
        /\ InRange(result.value.information_density)
        /\ InRange(result.value.actionability)
        /\ InRange(result.value.novelty)
        /\ InRange(result.value.clarity)
        /\ InRange(result.value.specificity)
        /\ InRange(result.value.temporal_relevance)

\* the clamp of information_density and of actionability is reached
C8_Witness ==
    /\ result.op = "calculate_quality_score"
    /\ WordCount(insight.original_content) >= 1
    /\ result.value.information_density = R(10)
    /\ result.value.actionability = R(10)
    /\ Len(insight.entities) >= 2

\* C9: on content with zero words calculate_quality_score returns the
\* all-zero QualityScore, total_score 0, whatever else the insight carries.
C9_EmptyContentScoresZero ==
    (result.op = "calculate_quality_score"
        /\ WordCount(insight.original_content) = 0) =>
        /\ result.value = DefaultQualityScore
        /\ total_score(result.value) = R(0)

C9_Witness ==
    /\ result.op = "calculate_quality_score"
    /\ insight.original_content = <<"  ">>
    /\ insight.entities # <<>>
    /\ insight.classifications # <<>>
    /\ insight.action_items # <<>>
    /\ insight.sentiment.present
    /\ HasSummaryTitle(insight)


\* C2: QualityFilter.should_sync is true iff check_completeness reports no
\* issue, the noise ratio is <= max_noise_ratio and total_score >=
\* min_relevance_score; an insight that fails completeness or exceeds the
\* noise limit is never synced, whatever its total_score.
C2_ShouldSyncIffThreeGates ==
    result.op = "should_sync" =>
        LET complete == check_completeness(qf, insight).issues = <<>>
            quiet == RLe(calculate_noise_ratio(insight.original_content),
                         qf.max_noise_ratio)
            relevant == RGe(total_score(insight.quality_score),
                            qf.min_relevance_score)
        IN  /\ result.value <=> (complete /\ quiet /\ relevant)
            /\ (~complete \/ ~quiet) => ~result.value

\* complete, total_score 10, but refused because of the noise alone
C2_Witness ==
    /\ result.op = "should_sync"
    /\ result.value = FALSE
    /\ check_completeness(qf, insight).is_complete
    /\ total_score(insight.quality_score) = R(10)
    /\ RGt(calculate_noise_ratio(insight.original_content),
           qf.max_noise_ratio)

\* C10: check_completeness returns is_complete iff the issue list is
\* empty, and the list holds exactly one entry per failing condition
\* (content too short, no classification, best confidence too low, missing
\* summary title): all failing conditions are reported.
C10_CompletenessReportsEveryIssue ==
    result.op = "check_completeness" =>
        LET issues == result.value.issues
            short == StrLen(insight.original_content) < qf.min_content_length
            unclassified == insight.classifications = <<>>
            unsure == /\ insight.classifications # <<>>
                      /\ \A i \in DOMAIN insight.classifications :
                            RLt(insight.classifications[i].confidence,
                                qf.min_confidence)
            untitled == ~insight.summary.present \/ insight.summary.title = ""
            B(c) == IF c THEN 1 ELSE 0
        IN  /\ result.value.is_complete <=> (issues = <<>>)
            /\ Occurrences(issues, TooShort) = B(short)
            /\ Occurrences(issues, NoClassifications) = B(unclassified)
            /\ Occurrences(issues, LowConfidence) = B(unsure)
            /\ Occurrences(issues, MissingTitle) = B(untitled)
            /\ Len(issues) = B(short) + B(unclassified) + B(unsure)
                             + B(untitled)

\* three conditions fail at once and all three are reported
C10_Witness ==
    /\ result.op = "check_completeness"
    /\ Len(result.value.issues) = 3
    /\ Len(insight.classifications) = 2
    /\ ~result.value.is_complete


\* C3: is_duplicate(a, b) is true if and only if the content hashes are
\* equal, or the Jaccard similarity j of the word sets is >= min_word_overlap
\* and 0.4*j + 0.4*cosine + 0.2*entity_overlap >= similarity_threshold;
\* hash-equal insights are duplicates whatever their transcript_id, entities,
\* summary and the thresholds, and a pair with j < min_word_overlap is never
\* a duplicate even when its combined score reaches the threshold.
C3_IsDuplicateIffHashOrCombined ==
    result.op = "is_duplicate" =>
        LET a == result.insight1
            b == result.insight2
            same_hash == calculate_content_hash(a.original_content)
                             = calculate_content_hash(b.original_content)
            j == calculate_similarity(a.original_content, b.original_content)
            reaches ==
                combined_at_least(
                    j,
                    calculate_cosine_similarity(a.original_content,
                                                b.original_content),
                    calculate_entity_overlap(a, b),
                    detector.similarity_threshold)
        IN  /\ result.value <=>
                  (same_hash \/ (RGe(j, detector.min_word_overlap) /\ reaches))
            /\ same_hash => result.value
            /\ (~same_hash /\ RLt(j, detector.min_word_overlap))
                  => ~result.value

\* a pair below min_word_overlap whose combined score reaches the threshold
C3_Witness ==
    /\ result.op = "is_duplicate"
    /\ ~result.value
    /\ RLt(calculate_similarity(result.insight1.original_content,
                                result.insight2.original_content),
           detector.min_word_overlap)
    /\ combined_at_least(
           calculate_similarity(result.insight1.original_content,
                                result.insight2.original_content),
           calculate_cosine_similarity(result.insight1.original_content,
                                       result.insight2.original_content),
           calculate_entity_overlap(result.insight1, result.insight2),
           detector.similarity_threshold)

\* C4: deduplicate_list is idempotent: applied to a list it returned, it
\* returns the same insights in the same order.
C4_DeduplicateListIdempotent ==
    (result.op = "deduplicate_list" /\ result.pass = 2) =>
        result.value = result.input

\* the first pass removed an insight and the second pass had at least two
\* insights to compare
C4_Witness ==
    /\ result.op = "deduplicate_list"
    /\ result.pass = 2
    /\ Len(result.input) >= 2
    /\ Len(result.input) < Len(existing)

\* C5: deduplicate_list returns a subsequence of its input (relative order
\* kept, nothing added), the first input element is always retained, and of
\* the insights with equal content hash at most the earliest is retained,
\* never a later one in its place.
C5_SubsequenceKeepingEarliestOfHashGroup ==
    (result.op = "deduplicate_list" /\ result.pass = 1) =>
        LET input == result.input
            kept == result.kept
            Hash(i) == calculate_content_hash(input[i].original_content)
        IN  /\ Len(kept) = Len(result.value)
            /\ \A k \in DOMAIN kept :
                  /\ kept[k] \in DOMAIN input
                  /\ result.value[k] = input[kept[k]]
            /\ \A k \in DOMAIN kept : k > 1 => kept[k - 1] < kept[k]
            /\ input # <<>> => (kept # <<>> /\ kept[1] = 1)
            /\ \A i \in DOMAIN input, l \in DOMAIN input :
                  (i < l /\ Hash(i) = Hash(l)) => l \notin Range(kept)

\* C6: in every state reachable by assess (update_scores true or false),
\* enrich and direct replacement of insight.quality_score, relevance_score
\* equals the total_score of the sub-scores currently stored in
\* insight.quality_score: the weighted sum is derived on each read.
C6_RelevanceScoreIsStoredTotal ==
    LET q == insight.quality_score
    IN  /\ RMul(R(100), relevance_score(insight)) =
             RSum(<< RMul(R(25), q.information_density),
                     RMul(R(20), q.actionability),
                     RMul(R(20), q.novelty),
                     RMul(R(15), q.clarity),
                     RMul(R(10), q.specificity),
                     RMul(R(10), q.temporal_relevance) >>)
        /\ (result.op = "assess" /\ result.update_scores) =>
               relevance_score(insight) = result.value.total_score

\* a directly replaced score read after the insight was assessed and enriched
C6_Witness ==
    /\ result.op = "set_quality_score"
    /\ insight.processed_at > 0
    /\ insight.quality_score.actionability = R(8)
    /\ relevance_score(insight) = Rat(207, 40)

\* C7: ProcessedInsight.should_sync is true exactly when relevance_score >=
\* the configured min_relevance_score, for every threshold in [0,10] and not
\* only the default 5.0.
C7_InsightShouldSyncUsesConfiguredThreshold ==
    insight_should_sync(insight) <=>
        RGe(relevance_score(insight), qf.min_relevance_score)

\* ------------------------------------------------------------------------
\* The words of a text once lower-cased, with punctuation removed and
\* whitespace collapsed
NormalizedWordSequence(content) ==
    LET lowered == [i \in DOMAIN content |-> Lower(content[i])]
        kept == SelectSeq(lowered, LAMBDA t : ~IsPunct(t))
    IN  WordsFrom([i \in DOMAIN kept |->
                      IF IsSpace(kept[i]) THEN " " ELSE kept[i]], 1)

\* C11: two contents whose lower-cased word sequences are equal once
\* punctuation is removed and whitespace is collapsed receive the same
\* content hash
C11_EqualWordSequencesHashEqual ==
    result.op = "calculate_content_hash" =>
        (NormalizedWordSequence(insight.original_content)
             = NormalizedWordSequence(existing[1].original_content)
         => result.value = result.other)

\* C12: a non-empty text has similarity 1.0 with itself, and two texts
\* that share no normalized word have similarity 0.0
C12_SelfSimilarityOneDisjointZero ==
    result.op = "calculate_similarity" =>
        /\ (/\ insight.original_content # <<>>
            /\ insight.original_content = existing[1].original_content)
           => result.value = R(1)
        /\ (_get_word_set(insight.original_content)
                \cap _get_word_set(existing[1].original_content) = {})
           => result.value = R(0)

\* C12 as amended: a text with at least one normalized word has similarity
\* 1.0 with itself, and two texts that share no normalized word have
\* similarity 0.0
C12_SelfSimilarityOneForTextsWithWords ==
    result.op = "calculate_similarity" =>
        /\ (/\ _get_word_set(insight.original_content) # {}
            /\ insight.original_content = existing[1].original_content)
           => result.value = R(1)
        /\ (_get_word_set(insight.original_content)
                \cap _get_word_set(existing[1].original_content) = {})
           => result.value = R(0)

C12_Witness ==
    /\ result.op = "calculate_similarity"
    /\ insight.original_content = PlanContent
    /\ existing[1].original_content = PlanContent
    /\ result.value = R(1)

\* C13: every similarity function returns 0.0 when the content (or the
\* entity list) on either side, or on both sides, is empty
C13_EmptySideGivesZero ==
    /\ result.op \in {"calculate_similarity",
                      "calculate_fingerprint_similarity"}
       => ((insight.original_content = <<>>
               \/ existing[1].original_content = <<>>)
           => result.value = R(0))
    /\ result.op = "calculate_cosine_similarity"
       => ((insight.original_content = <<>>
               \/ existing[1].original_content = <<>>)
           => result.value.dot = 0)
    /\ result.op = "calculate_entity_overlap"
       => ((insight.entities = <<>> \/ existing[1].entities = <<>>)
           => result.value = R(0))

\* ------------------------------------------------------------------------
\* the members of the comparison list that find_duplicates is to report:
\* another transcript_id, and accepted by is_duplicate
Reported(i) ==
    /\ existing[i].transcript_id # insight.transcript_id
    /\ is_duplicate(detector, insight, existing[i])

\* C14: find_duplicates(insight, corpus) returns one (transcript_id, score)
\* pair for exactly the members with another transcript_id that
\* is_duplicate accepts; a hash-equal member carries the score 1.0, the
\* others their combined score; the list is in non-increasing score order
C14_FindDuplicatesMatchesIsDuplicate ==
    (result.op = "find_duplicates" /\ ~result.threshold.present) =>
        LET duplicates == result.value
            ids == [k \in DOMAIN duplicates |-> duplicates[k].transcript_id]
        IN  /\ \A x \in Range(ids) \cup
                        {existing[i].transcript_id : i \in DOMAIN existing} :
                   Occurrences(ids, x)
                       = Cardinality({ i \in DOMAIN existing :
                                         /\ Reported(i)
                                         /\ existing[i].transcript_id = x })
            /\ \A k \in DOMAIN duplicates :
                   \E i \in DOMAIN existing :
                       /\ Reported(i)
                       /\ existing[i].transcript_id
                              = duplicates[k].transcript_id
                       /\ duplicates[k].score
                              = IF calculate_content_hash(
                                       insight.original_content)
                                     = calculate_content_hash(
                                           existing[i].original_content)
                                THEN ExactScore
                                ELSE combined_score(insight, existing[i])
            /\ \A k \in 1..(Len(duplicates) - 1) :
                   ScoreGe(duplicates[k].score, duplicates[k + 1].score)

\* a call that skips the insight's own transcript_id and returns a
\* hash-equal member after a near-duplicate that came first in the list
C14_Witness ==
    /\ result.op = "find_duplicates"
    /\ ~result.threshold.present
    /\ Len(existing) = 3
    /\ insight = DedupPool[1]
    /\ existing[1].transcript_id = "t1"
    /\ existing[2].transcript_id = "t2"
    /\ existing[3].transcript_id = "t3"
    /\ Len(result.value) = 2
    /\ result.value[1] = [transcript_id |-> "t3", score |-> ExactScore]
    /\ result.value[2].transcript_id = "t2"

\* ------------------------------------------------------------------------
\* C15: enrich leaves tags that were set before the call as they are and
\* sets empty tags to generate_tags(insight); either way the priority
\* becomes assign_priority(insight) and processed_at is read anew from the
\* clock
C15_EnrichKeepsPresetTags ==
    [][(result'.op = "enrich" /\ now' = now + 1) =>
          /\ insight.tags # <<>> => insight'.tags = insight.tags
          /\ insight.tags = <<>> => insight'.tags = generate_tags(insight)
          /\ insight'.priority = assign_priority(insight)
          /\ insight'.processed_at = now
          /\ insight'.processed_at > insight.processed_at]_vars

\* an enriched insight whose tags were set beforehand, with a priority
\* that the call assigned
C15_Witness ==
    /\ result.op = "enrich"
    /\ insight.tags = <<"apollo", "acme", "preset">>
    /\ insight.priority = "Critical"
    /\ insight.processed_at = 1

\* C16: after enrich with a non-empty comparison set related_insight_ids
\* holds each id at most once, holds every id it held before and every id
\* map_relationships returns, and has not gained the insight's own
\* transcript_id; over any sequence of calls the set of related ids only
\* grows
C16_RelatedIdsGrowWithoutRepeats ==
    [][/\ Range(insight.related_insight_ids)
              \subseteq Range(insight'.related_insight_ids)
       /\ (/\ result'.op = "enrich"
           /\ now' = now + 1
           /\ result'.with_existing
           /\ existing # <<>>) =>
              LET before == insight.related_insight_ids
                  after == insight'.related_insight_ids
              IN  /\ \A i, j \in DOMAIN after :
                         after[i] = after[j] => i = j
                  /\ Range(before) \subseteq Range(after)
                  /\ Range(map_relationships(insight', existing,
                                             map_relationships_threshold))
                         \subseteq Range(after)
                  /\ insight.transcript_id \in Range(after)
                         => insight.transcript_id \in Range(before)]_vars

\* a second enrich call against a comparison set that holds a related
\* insight and an insight with the same transcript_id
C16_Witness ==
    /\ result.op = "enrich"
    /\ result.with_existing
    /\ now = 3
    /\ Len(existing) >= 2
    /\ insight.related_insight_ids = <<"t2">>

\* ------------------------------------------------------------------------
\* the strings of the vocabulary that hold an upper-case letter, and those
\* that hold a space
UpperCaseStrings ==
    ({p[1] : p \in LowerPairs} \cup {p[1] : p \in NormalizeTagPairs})
        \ {"!!"}

SpacedStrings ==
    {"Action Item", "action item", "next Friday", "next friday",
     "Q3 review", "q3 review", "Very Calm", "very calm", "nice to have",
     "low priority", "when possible", " ", "  "}

\* C17: generate_tags returns at most max_tags tags, each of them
\* lower-case, without a space, of length 2 or more and not a stop word
C17_TagsAreFewAndWellFormed ==
    result.op = "generate_tags" =>
        /\ Len(result.value) <= max_tags
        /\ \A i \in DOMAIN result.value :
               /\ result.value[i] \notin UpperCaseStrings
               /\ result.value[i] \notin SpacedStrings
               /\ Len(result.value[i]) >= 2
               /\ result.value[i] \notin _stop_words

\* tags cut to max_tags, from an insight with more candidate tags
C17_Witness ==
    /\ result.op = "generate_tags"
    /\ insight.original_content = ManyWordsContent
    /\ Len(generate_tags_untruncated(insight)) > max_tags
    /\ insight.primary_category = "Action Item"
    /\ Len(result.value) = max_tags
    /\ "action-item" \in Range(result.value)

PriorityRank(level) ==
    CASE level = "Low" -> 1
      [] level = "Medium" -> 2
      [] level = "High" -> 3
      [] level = "Critical" -> 4

UrgencyRank(urgency) ==
    CASE urgency = "low" -> 1
      [] urgency = "medium" -> 2
      [] urgency = "high" -> 3
      [] urgency = "critical" -> 4

\* the highest keyword tier with a keyword in the content: 4 for Critical
\* down to 1 for Low, 0 when no keyword matches
HighestKeywordTier(content) ==
    LET matched == { i \in DOMAIN _priority_keywords :
                       \E keyword \in _priority_keywords[i].keywords :
                           ContainsKeyword(content, keyword) }
    IN  IF matched = {} THEN 0
        ELSE PriorityRank(_priority_keywords[
                 CHOOSE i \in matched : \A j \in matched : i <= j].level)

\* C18: of two insights that differ only in sentiment urgency, the one of
\* higher urgency never gets a lower priority level; of two that differ
\* only in content, the one whose highest matched keyword tier is higher
\* never gets a lower level; Critical urgency never yields a lower level
\* than Low urgency
C18_PriorityMonotonic ==
    result.op = "assign_priority" =>
        /\ insight.sentiment.present =>
               \A urgency \in UrgencyLevel :
                   UrgencyRank(urgency)
                       >= UrgencyRank(insight.sentiment.urgency)
                   => PriorityRank(assign_priority(
                          [insight EXCEPT !.sentiment.urgency = urgency]))
                          >= PriorityRank(result.value)
        /\ \A content \in EnrichContents :
               HighestKeywordTier(content)
                   >= HighestKeywordTier(insight.original_content)
               => PriorityRank(assign_priority(
                      [insight EXCEPT !.original_content = content]))
                      >= PriorityRank(result.value)
        /\ (insight.sentiment.present
                /\ insight.sentiment.urgency = "low") =>
               PriorityRank(assign_priority(
                   [insight EXCEPT !.sentiment.urgency = "critical"]))
                   >= PriorityRank(result.value)

\* an insight of High urgency with priority High that Critical urgency
\* lifts to Critical
C18_Witness ==
    /\ result.op = "assign_priority"
    /\ insight.sentiment.present
    /\ insight.sentiment.urgency = "high"
    /\ result.value = "High"
    /\ assign_priority([insight EXCEPT !.sentiment.urgency = "critical"])
           = "Critical"

\* |a & b| / |a | b|, counting as 0 over two empty sets
Jaccard(a, b) ==
    IF a \cup b = {} THEN R(0)
    ELSE Rat(Cardinality(a \cap b), Cardinality(a \cup b))

\* 0.4 * Jaccard(tags) + 0.5 * Jaccard(entities) + 0.1 for equal non-null
\* primary categories
RelationshipFormula(a, b) ==
    RAdd(RAdd(RMul(Rat(4, 10), Jaccard(Range(a.tags), Range(b.tags))),
              RMul(Rat(5, 10),
                   Jaccard({<<Lower(e.text), e.type>> :
                               e \in Range(a.entities)},
                           {<<Lower(e.text), e.type>> :
                               e \in Range(b.entities)}))),
         IF a.primary_category # None /\ b.primary_category # None
            /\ a.primary_category = b.primary_category
         THEN Rat(1, 10) ELSE R(0))

\* C19: map_relationships(insight, candidates, t) returns the transcript_id
\* of a candidate iff the candidate's id differs from the insight's and the
\* weighted similarity is at least t; the insight itself is never returned
C19_RelatedIffSimilarityAtLeastThreshold ==
    result.op = "map_relationships" =>
        /\ \A i \in DOMAIN existing :
               existing[i].transcript_id \in Range(result.value)
               <=> /\ existing[i].transcript_id # insight.transcript_id
                   /\ RGe(RelationshipFormula(insight, existing[i]),
                          result.similarity_threshold)
        /\ Range(result.value)
               \subseteq {existing[i].transcript_id : i \in DOMAIN existing}
        /\ insight.transcript_id \notin Range(result.value)

\* a call at the default threshold that returns t2, leaves out the
\* candidate with the insight's own id and leaves out a dissimilar one
C19_Witness ==
    /\ result.op = "map_relationships"
    /\ result.similarity_threshold = map_relationships_threshold
    /\ Len(existing) = 3
    /\ result.value = <<"t2">>
    /\ RGe(RelationshipFormula(insight, existing[2]),
           map_relationships_threshold)

\* ------------------------------------------------------------------------
\* C20: assess reports sync_priority "high" for a computed total >= 7,
\* "medium" for 5 <= total < 7, "low" for 3 <= total < 5 and "none" below
\* 3; ProcessedInsight.sync_priority applies the same buckets to the stored
\* score, so after assess with update_scores the two labels agree
C20_SyncPriorityBucketsAgree ==
    /\ LET stored == relevance_score(insight)
           label == insight_sync_priority(insight)
       IN  /\ label = "high" <=> RGe(stored, R(7))
           /\ label = "medium" <=> RGe(stored, R(5)) /\ RLt(stored, R(7))
           /\ label = "low" <=> RGe(stored, R(3)) /\ RLt(stored, R(5))
           /\ label = "none" <=> RLt(stored, R(3))
    /\ result.op = "assess" =>
           LET total == result.value.total_score
               label == result.value.sync_priority
           IN  /\ label = "high" <=> RGe(total, R(7))
               /\ label = "medium" <=> RGe(total, R(5)) /\ RLt(total, R(7))
               /\ label = "low" <=> RGe(total, R(3)) /\ RLt(total, R(5))
               /\ label = "none" <=> RLt(total, R(3))
               /\ result.update_scores
                      => insight_sync_priority(insight) = label

\* an assessment that stored a total of 3.725 and reports "low", as the
\* insight then does
C20_Witness ==
    /\ result.op = "assess"
    /\ result.update_scores
    /\ result.value.total_score = Rat(149, 40)
    /\ result.value.sync_priority = "low"
    /\ relevance_score(insight) = Rat(149, 40)
    /\ insight_sync_priority(insight) = "low"

\* ------------------------------------------------------------------------
\* C21: process with use_cache and caching enabled returns the very object
\* stored for the transcript_id by an earlier call and runs no analyzer;
\* with use_cache=False, with an empty cache (as after clear_cache) or with
\* caching disabled it runs the analyzers again; a successful run stores
\* its result under the transcript_id whenever caching is enabled
C21_CacheHitReturnsStoredObject ==
    [][/\ result'.op = "clear_cache" => DOMAIN processor'.cache = {}
       /\ result'.op = "process" =>
              LET key == result'.transcript_id
                  hit == /\ result'.use_cache
                         /\ processor.cache_enabled
                         /\ key \in DOMAIN processor.cache
              IN  /\ hit => /\ result'.outcome = "cached"
                            /\ result'.value = processor.cache[key]
                            /\ processor' = processor
                  /\ ~hit => /\ result'.outcome # "cached"
                             /\ processor'.runs = processor.runs + 1
                  /\ (result'.outcome = "processed"
                          /\ processor.cache_enabled) =>
                         /\ key \in DOMAIN processor'.cache
                         /\ processor'.cache[key] = result'.value
                         /\ result'.value.object = processor'.runs]_vars

\* a call answered from the cache with the object of the first run, after
\* a second run for another transcript
C21_Witness ==
    /\ result.op = "process"
    /\ result.outcome = "cached"
    /\ result.transcript_id = "t1"
    /\ result.value.object = 1
    /\ processor.runs = 2
    /\ DOMAIN processor.cache = {"t1", "t2"}

\* ------------------------------------------------------------------------
\* C25: a request that fails with a timeout or a network error is tried
\* again: when such a failure is raised to the caller, 3 attempts have
\* been made
C25_TransportFailureRaisedAfterThreeAttempts ==
    (/\ client.phase = "raised"
     /\ client.cause \in {"TimeoutException", "NetworkError"}) =>
        client.attempt = stop_after_attempt

\* ------------------------------------------------------------------------
\* the members of the comparison list that pass find_duplicates with the
\* combined-score cut-off `cutoff`: another transcript_id, and either the
\* same hash or enough word overlap and a combined score of at least cutoff
PassesCutoff(i, cutoff) ==
    /\ existing[i].transcript_id # insight.transcript_id
    /\ \/ calculate_content_hash(insight.original_content)
              = calculate_content_hash(existing[i].original_content)
       \/ /\ RGe(calculate_similarity(insight.original_content,
                                      existing[i].original_content),
                 detector.min_word_overlap)
          /\ ScoreGe(combined_score(insight, existing[i]),
                     Score(cutoff, [dot |-> 0, squares |-> 1]))

\* C24: find_duplicates cuts at the threshold passed by the caller, for
\* every value in [0,1] including 0.0, and at the detector's
\* similarity_threshold only when none is passed; the min_word_overlap
\* pre-filter applies in both cases
C24_PassedThresholdIsTheCutoff ==
    result.op = "find_duplicates" =>
        LET cutoff == IF result.threshold.present
                      THEN result.threshold.value
                      ELSE detector.similarity_threshold
        IN  { result.value[k].transcript_id : k \in DOMAIN result.value }
                = { existing[i].transcript_id :
                      i \in { j \in DOMAIN existing : PassesCutoff(j, cutoff) } }

\* ------------------------------------------------------------------------
\* C22: the quality engine writes quality_score only: assess with
\* update_scores changes no other field of the insight, and assess without
\* update_scores, calculate_quality_score, check_completeness,
\* calculate_noise_ratio and should_sync change no field at all; the
\* thresholds of the filter stay as they are
C22_OnlyQualityScoreIsWritten ==
    [][/\ qf' = qf
       /\ DOMAIN insight' = DOMAIN insight
       /\ \A field \in DOMAIN insight \ {"quality_score"} :
              insight'[field] = insight[field]
       /\ ~(result'.op = "assess" /\ result'.update_scores) =>
              insight' = insight
       /\ (result'.op = "assess" /\ result'.update_scores) =>
              insight'.quality_score = result'.value.quality_score]_vars

\* an insight whose six sub-scores were all 0 or all equal, carrying after
\* assess the score that assess reported
C22_Witness ==
    /\ result.op = "assess"
    /\ result.update_scores
    /\ insight.quality_score = result.value.quality_score
    /\ insight.quality_score.novelty # insight.quality_score.specificity
    /\ insight.tags # <<>>

\* ------------------------------------------------------------------------
\* C27: right after assess(insight, update_scores=True) the should_sync
\* entry of the report equals QualityFilter.should_sync(insight)
C27_ReportAgreesWithShouldSync ==
    (result.op = "assess" /\ result.update_scores) =>
        result.value.should_sync = should_sync(qf, insight)

\* an assessment that passes the three gates of a filter whose
\* min_relevance_score is 5.0
C27_Witness ==
    /\ result.op = "assess"
    /\ result.update_scores
    /\ result.value.should_sync
    /\ should_sync(qf, insight)
    /\ qf.min_relevance_score = R(5)

\* ------------------------------------------------------------------------
\* the additive priority score: the boost of the highest keyword tier in
\* the content alone, the category boost, the urgency boost, the
\* actionability boost, min(1.5, 0.5 * DATE entities) and
\* min(2.0, 0.5 * action items)
AdditivePriorityScore(scored) ==
    LET tier == HighestKeywordTier(scored.original_content)
        dates == Cardinality({ i \in DOMAIN scored.entities :
                                 scored.entities[i].type = "DATE" })
    IN  RSum(<<IF tier = 4 THEN R(3) ELSE IF tier = 3 THEN R(2)
               ELSE IF tier = 2 THEN R(1) ELSE R(0),
               IF scored.primary_category = None THEN R(0)
               ELSE category_boosts(scored.primary_category),
               IF scored.sentiment.present
               THEN urgency_boost(scored.sentiment.urgency) ELSE R(0),
               IF RGe(scored.quality_score.actionability, R(8))
               THEN Rat(3, 2)
               ELSE IF RGe(scored.quality_score.actionability, R(6))
               THEN Rat(3, 4) ELSE R(0),
               RMin(Rat(3, 2), Rat(dates, 2)),
               RMin(R(2), Rat(Len(scored.action_items), 2))>>)

\* C23: the priority that enrich assigns is Critical iff the additive
\* score is >= 6, High iff it is in [4, 6), Medium iff in [2, 4) and Low
\* iff below 2, the keywords contributing through their highest tier only
C23_PriorityBandsOfAdditiveScore ==
    result.op = "enrich" =>
        LET score == AdditivePriorityScore(insight)
        IN  /\ insight.priority = "Critical" <=> RGe(score, R(6))
            /\ insight.priority = "High" <=>
                   (RGe(score, R(4)) /\ RLt(score, R(6)))
            /\ insight.priority = "Medium" <=>
                   (RGe(score, R(2)) /\ RLt(score, R(4)))
            /\ insight.priority = "Low" <=> RLt(score, R(2))

\* a content with keywords of more than one tier, in an insight of
\* actionability 6 or more whose priority is Medium
C23_Witness ==
    /\ result.op = "enrich"
    /\ insight.priority = "Medium"
    /\ Cardinality({ i \in DOMAIN _priority_keywords :
                       \E keyword \in _priority_keywords[i].keywords :
                           ContainsKeyword(insight.original_content,
                                           keyword) }) >= 2
    /\ RGe(insight.quality_score.actionability, R(6))

\* ------------------------------------------------------------------------
\* C26: in the list deduplicate_list returns no two insights are
\* duplicates of each other, in either argument order, and every removed
\* insight is a duplicate of a retained insight that precedes it in the
\* input
C26_RetainedPairwiseDistinctRemovedCovered ==
    result.op = "deduplicate_list" =>
        /\ \A a \in DOMAIN result.value, b \in DOMAIN result.value :
               a # b => ~is_duplicate(detector, result.value[a],
                                      result.value[b])
        /\ \A i \in DOMAIN result.input :
               i \notin Range(result.kept) =>
                   \E k \in Range(result.kept) :
                       /\ k < i
                       /\ is_duplicate(detector, result.input[i],
                                       result.input[k])

\* a list of three from which a near-duplicate of the first is removed
\* and a third insight, hash-equal to the removed one, is retained
C26_Witness ==
    /\ result.op = "deduplicate_list"
    /\ result.pass = 1
    /\ Len(result.input) = 3
    /\ result.kept = <<1, 3>>
    /\ calculate_content_hash(result.input[2].original_content)
           = calculate_content_hash(result.input[3].original_content)
    /\ calculate_content_hash(result.input[1].original_content)
           # calculate_content_hash(result.input[2].original_content)

\* ------------------------------------------------------------------------
\* C28: enrich is idempotent apart from processed_at and the order of the
\* related ids: a call of enrich that directly follows a call with the
\* same comparison set leaves the tags, the priority and the set of
\* related_insight_ids as the first call left them
C28_EnrichTwiceAsOnce ==
    [][(/\ result.op = "enrich"
        /\ result'.op = "enrich"
        /\ result'.with_existing = result.with_existing) =>
           /\ insight'.tags = insight.tags
           /\ insight'.priority = insight.priority
           /\ Range(insight'.related_insight_ids)
                  = Range(insight.related_insight_ids)]_vars

\* an insight after its second enrich, with generated tags and a related
\* insight
C28_Witness ==
    /\ result.op = "enrich"
    /\ result.with_existing
    /\ now = 3
    /\ insight.tags = generate_tags([insight EXCEPT !.tags = <<>>])
    /\ insight.tags # <<>>
    /\ insight.related_insight_ids # <<>>

\* ------------------------------------------------------------------------
\* the number of times a word occurs among the normalized words of a text
TermCount(content, word) ==
    Cardinality({ i \in DOMAIN NormalizedWordSequence(content) :
                    NormalizedWordSequence(content)[i] = word })

\* C29: with the default thresholds, two insights with different content
\* hashes of which at least one has no entities are duplicates for
\* is_duplicate only if their normalized word sets are identical and not
\* empty (Jaccard = 1) and their term-frequency vectors are proportional
\* (cosine = 1)
C29_WithoutEntitiesOnlyIdenticalWords ==
    (/\ result.op = "is_duplicate"
     /\ detector = DefaultDuplicateDetector
     /\ calculate_content_hash(insight.original_content)
            # calculate_content_hash(existing[1].original_content)
     /\ (insight.entities = <<>> \/ existing[1].entities = <<>>)
     /\ result.value) =>
        LET words1 == Range(NormalizedWordSequence(insight.original_content))
            words2 ==
                Range(NormalizedWordSequence(existing[1].original_content))
        IN  /\ words1 = words2
            /\ words1 # {}
            /\ \A w \in words1, v \in words1 :
                   TermCount(insight.original_content, w)
                       * TermCount(existing[1].original_content, v)
                   = TermCount(insight.original_content, v)
                       * TermCount(existing[1].original_content, w)

\* the same four words in another order, one insight without entities,
\* reported as duplicates
C29_Witness ==
    /\ result.op = "is_duplicate"
    /\ result.value
    /\ insight.original_content = PlanContent
    /\ existing[1].original_content
           = <<"more", " ", "plan", " ", "project", " ", "the">>
    /\ insight.entities = <<>>
    /\ existing[1].entities # <<>>
    /\ calculate_content_hash(insight.original_content)
           # calculate_content_hash(existing[1].original_content)

\* ------------------------------------------------------------------------
\* C30: for a content of at least one word calculate_quality_score yields
\* novelty >= 2, clarity >= 1, specificity >= 5 and temporal_relevance
\* >= 5, hence a total_score >= 1.55; the total_score is 0 if and only if
\* the content has no word
C30_ScoredContentHasFloor ==
    result.op = "calculate_quality_score" =>
        LET has_word == \E i \in DOMAIN insight.original_content :
                            ~IsSpace(insight.original_content[i])
        IN  /\ has_word =>
                   /\ RGe(result.value.novelty, R(2))
                   /\ RGe(result.value.clarity, R(1))
                   /\ RGe(result.value.specificity, R(5))
                   /\ RGe(result.value.temporal_relevance, R(5))
                   /\ RGe(total_score(result.value), Rat(155, 100))
            /\ total_score(result.value) = R(0) <=> ~has_word

\* a short Discussion without entity: novelty, specificity and
\* temporal_relevance are at their floors
C30_Witness ==
    /\ result.op = "calculate_quality_score"
    /\ \E i \in DOMAIN insight.original_content :
           ~IsSpace(insight.original_content[i])
    /\ result.value.novelty = R(2)
    /\ result.value.specificity = R(5)
    /\ result.value.temporal_relevance = R(5)
    /\ RGt(total_score(result.value), R(0))
















====
